---------------------------- MODULE Spec2Model ----------------------------
(***************************************************************************)
(* A model of the RAG backend: the ingestion text chunker, the ingestion   *)
(* pipeline with its checkpoint, the vector-store writer, and the LLM      *)
(* gateway client with its circuit breaker.                                *)
(*                                                                         *)
(* Each component has its own specification (SpecChunk, SpecIngest,        *)
(* SpecBreaker, SpecClient, SpecStore) over its own variables; the         *)
(* variables of the other components keep their initial values.            *)
(*                                                                         *)
(* Python strings are sequences of one-character strings.                  *)
(***************************************************************************)
EXTENDS Integers, Sequences, FiniteSets, TLC

VARIABLES
    \* ---- text_processor.py: one chunk_text call
    ct_pc,          \* "start" | "done"
    ct_text,        \* the text argument
    ct_url,         \* the source_url argument
    ct_size,        \* the max_chunk_size argument
    ct_chunks       \* the returned list of ContentChunk

VARIABLES
    \* ---- ingest.py: runs of run_ingestion_pipeline over one checkpoint file
    ig_pc,           \* "ready" | "loop" | "saved" | "stored" | "done" | "aborted" | "crashed"
    ig_run,          \* number of runs started so far
    ig_resume,       \* the resume argument of the current run
    ig_sitemap,      \* the entries load_sitemap_urls returns (their URLs)
    ig_ckpt,         \* the checkpoint file ingestion_progress.json
    ig_loaded,       \* what load_progress returned at the start of the current run
    ig_urls,         \* urls_to_process
    ig_i,            \* number of loop passes completed
    ig_processed,    \* processed_urls
    ig_failed,       \* failed_urls
    ig_newly,        \* newly_processed_urls
    ig_all_chunks,   \* all_chunks (the source URL of each page's chunks)
    ig_attempts,     \* history: the extract_and_chunk_url calls of the current run
    ig_store,        \* URLs whose chunks store_content_chunks has written
    ig_saves,        \* history: the save_progress calls of the current run
    ig_calls,        \* history: the embedding and storage calls of the current run
    ig_fail_budget   \* most extractions the environment lets fail in one run

VARIABLES
    \* ---- openrouter_client.py: the clock and one CircuitBreaker
    clk_now,         \* time.time()
    cb,              \* the breaker: _state, failure_count, last_failure_time,
                     \*   failure_threshold, recovery_timeout
    cb_opened_at,    \* history: the clock at the last _open_circuit (NoTime: never)
    cb_streak,       \* history: failing calls of the wrapped function since its last success
    cb_last          \* history: the last operation on the breaker and what it did

VARIABLES
    \* ---- openrouter_client.py: one OpenRouterClient (its breaker is cb)
    rq_pc,           \* "idle" | "attempt" (inside _make_request's loop) | "returned" | "raised"
    rq_count,        \* number of send_request calls started
    rq_max_retries,  \* Config.MAX_RETRIES
    rq_branch,       \* the state CircuitBreaker.call saw when it let the call in
    rq_attempt,      \* attempt, the loop variable of _make_request
    rq_posts,        \* history: POSTs issued by the current call
    rq_last,         \* history: the gateway's last outcome in the current call
    rq_slept,        \* history: the backoff sleep taken after the last outcome (0: none)
    rq_all5xx,       \* history: every outcome of the current call was a status >= 500
    rq_result,       \* what send_request returned: "content" | "None"
    rq_down,         \* history: consecutive calls that POSTed, got only 5xx, returned None
    rq_post_times,   \* history: the POSTs of the current call in the last RlTimeWindow seconds
    rl_calls         \* RateLimiter.calls

VARIABLES
    \* ---- qdrant_client.py: the collection and the QdrantStorage writers
    st_collection,   \* the points of the Qdrant collection
    st_w,            \* per writer: the store_embeddings / store_embedding call in progress
    st_calls,        \* number of store calls started
    st_stored,       \* history: the pairs handled by completed calls with skip_duplicates
    st_repeat        \* history: the pairs such a call met again, and how

VARIABLES
    \* ---- prompt_constructor.py: construct_prompt, validate_prompt_format
    pr_pc,           \* "idle", "constructed", "raised" (ValueError), "validated"
    pr_query,        \* query
    pr_chunks,       \* context_chunks
    pr_max_len,      \* max_context_length, 0 for None
    pr_prompt,       \* the prompt construct_prompt returned
    pr_valid         \* what validate_prompt_format returned for it

VARIABLES
    \* ---- answer_generation/utils.py: detect_hallucination, calculate_confidence_score
    ut_pc,           \* "idle", "scored", "detected"
    ut_answer,       \* answer
    ut_chunks,       \* context_chunks
    ut_score,        \* the confidence score returned, as the fraction num / den
    ut_flag          \* what detect_hallucination returned

VARIABLES
    \* ---- sitemap_loader.py: load_sitemap_urls
    sm_pc,           \* "idle", "ready", "index", "done", "raised"
    sm_top,          \* sitemap_url
    sm_web,          \* what a GET of each sitemap URL answers
    sm_stack,        \* the _parse_sitemap_index calls in progress, outermost first
    sm_fetches,      \* history: number of session.get calls of the load
    sm_urls          \* the urls gathered so far

VARIABLES
    \* ---- openrouter_client.py: a RateLimiter called on its own
    lm_max_calls,    \* max_calls
    lm_time_window,  \* time_window
    lm_returns       \* history: the clock at each return of wait_if_needed

VARIABLES
    \* ---- prompt_constructor.py: construct_prompt_with_length_management
    mp_pc,           \* "idle", "constructed", "raised" (ValueError)
    mp_query,        \* query
    mp_chunks,       \* context_chunks
    mp_max_total,    \* max_total_length
    mp_selected,     \* selected_context when the loop ended
    mp_prompt        \* the prompt returned

chunkVars == <<ct_pc, ct_text, ct_url, ct_size, ct_chunks>>

ingestVars == <<ig_pc, ig_run, ig_resume, ig_sitemap, ig_ckpt, ig_loaded, ig_urls, ig_i,
                ig_processed, ig_failed, ig_newly, ig_all_chunks, ig_attempts, ig_store,
                ig_saves, ig_calls, ig_fail_budget>>

breakerVars == <<clk_now, cb, cb_opened_at, cb_streak, cb_last>>

clientVars == <<rq_pc, rq_count, rq_max_retries, rq_branch, rq_attempt, rq_posts, rq_last,
                rq_slept, rq_all5xx, rq_result, rq_down, rq_post_times, rl_calls>>

storeVars == <<st_collection, st_w, st_calls, st_stored, st_repeat>>

promptVars == <<pr_pc, pr_query, pr_chunks, pr_max_len, pr_prompt, pr_valid>>

utilVars == <<ut_pc, ut_answer, ut_chunks, ut_score, ut_flag>>

managedVars == <<mp_pc, mp_query, mp_chunks, mp_max_total, mp_selected, mp_prompt>>

limiterVars == <<lm_max_calls, lm_time_window, lm_returns>>

sitemapVars == <<sm_pc, sm_top, sm_web, sm_stack, sm_fetches, sm_urls>>

vars == <<chunkVars, ingestVars, breakerVars, clientVars, storeVars, promptVars, utilVars, sitemapVars, limiterVars, managedVars>>

\* What the actions of one component leave alone.
notChunk == <<ingestVars, breakerVars, clientVars, storeVars, promptVars, utilVars, sitemapVars, limiterVars, managedVars>>
notIngest == <<chunkVars, breakerVars, clientVars, storeVars, promptVars, utilVars, sitemapVars, limiterVars, managedVars>>
notBreaker == <<chunkVars, ingestVars, clientVars, storeVars, promptVars, utilVars, sitemapVars, limiterVars, managedVars>>
notClient == <<chunkVars, ingestVars, storeVars, promptVars, utilVars, sitemapVars, limiterVars, managedVars>>
notStore == <<chunkVars, ingestVars, breakerVars, clientVars, promptVars, utilVars, sitemapVars, limiterVars, managedVars>>
notUtil == <<chunkVars, ingestVars, breakerVars, clientVars, storeVars, promptVars, sitemapVars, limiterVars, managedVars>>
notPrompt == <<chunkVars, ingestVars, breakerVars, clientVars, storeVars, utilVars, sitemapVars, limiterVars, managedVars>>
notManaged == <<chunkVars, ingestVars, breakerVars, clientVars, storeVars, promptVars, utilVars, sitemapVars, limiterVars>>
notLimiter == <<chunkVars, ingestVars, storeVars, promptVars, utilVars, sitemapVars, managedVars>>
notSitemap == <<chunkVars, ingestVars, breakerVars, clientVars, storeVars, promptVars, utilVars, limiterVars, managedVars>>

(***************************************************************************)
(* Bounds of the model.                                                    *)
(***************************************************************************)
MaxTextLen == 6       \* longest text handed to chunk_text
MaxChunkSize == 3     \* largest max_chunk_size handed to chunk_text
MaxSitemapLen == 3    \* most entries in the sitemap
MaxRuns == 2          \* most pipeline runs in one behaviour
MaxTime == 4          \* the clock is not advanced by hand past this
MaxThreshold == 2     \* largest failure_threshold of a breaker
MaxTimeout == 2       \* largest recovery_timeout of a breaker
MaxDuration == 1      \* longest a wrapped call takes
MaxRetries == 2       \* largest Config.MAX_RETRIES
MaxRequests == 3      \* most send_request calls in one behaviour
RecoveryTimeout == 2  \* the client breaker's recovery_timeout, scaled down from 60
RlMaxCalls == 1       \* the client rate limiter's max_calls, scaled down from 10
RlTimeWindow == 2     \* the client rate limiter's time_window, scaled down from 60
MaxItems == 2         \* most items in one store_embeddings call
MaxStoreCalls == 2    \* most store calls in one behaviour
LongSitemapLen == 21  \* entries of the long sitemap
MaxLongFailures == 1  \* most failed extractions in a run over the long sitemap
MaxIndexEntries == 2  \* most <sitemap> entries of a sitemap document
RecursionLimit == 3   \* nested _parse_sitemap_index calls the interpreter allows
MaxLimiterCalls == 2  \* largest max_calls of a rate limiter called on its own
MaxLimiterWindow == 3 \* largest time_window of such a limiter
MaxWaits == 4         \* most wait_if_needed calls in one behaviour
MaxOversleep == 1     \* most seconds time.sleep lasts beyond the time asked for
MaxManagedChunks == 3 \* most chunks handed to construct_prompt_with_length_management
MaxContextChunks == 2 \* most chunks in a context list
MaxContextLength == 3 \* largest max_context_length handed to construct_prompt

(***************************************************************************)
(* Generic sequence helpers.                                               *)
(***************************************************************************)
SeqsUpTo(S, n) == UNION {[1..k -> S] : k \in 0..n}

RECURSIVE Concat(_)
Concat(ss) == IF ss = <<>> THEN <<>> ELSE Head(ss) \o Concat(Tail(ss))

Min(a, b) == IF a <= b THEN a ELSE b

(***************************************************************************)
(* Text of the chunker: letters, the blank, sentence terminators.          *)
(***************************************************************************)
Chars == {"a", " ", "."}
Urls == {"u1", "u2"}

IsTerminator(c) == c \in {".", "!", "?"}
IsSpace(c) == c = " "

\* str.strip()
RECURSIVE LStrip(_)
LStrip(s) == IF s # <<>> /\ IsSpace(Head(s)) THEN LStrip(Tail(s)) ELSE s

RECURSIVE RStrip(_)
RStrip(s) ==
    IF s # <<>> /\ IsSpace(s[Len(s)]) THEN RStrip(SubSeq(s, 1, Len(s) - 1)) ELSE s

Strip(s) == RStrip(LStrip(s))

\* re.split(r'[.!?]+', text): the pieces between maximal terminator runs,
\* empty pieces included.
RECURSIVE ReSplitFrom(_, _, _, _)
ReSplitFrom(s, i, cur, inRun) ==
    IF i > Len(s) THEN <<cur>>
    ELSE IF IsTerminator(s[i])
         THEN IF inRun THEN ReSplitFrom(s, i + 1, cur, TRUE)
              ELSE <<cur>> \o ReSplitFrom(s, i + 1, <<>>, TRUE)
         ELSE ReSplitFrom(s, i + 1, Append(cur, s[i]), FALSE)

ReSplit(s) == ReSplitFrom(s, 1, <<>>, FALSE)

\* re.findall(r'[.!?]+', text): the maximal terminator runs.
RECURSIVE ReFindAllFrom(_, _, _)
ReFindAllFrom(s, i, run) ==
    IF i > Len(s) THEN (IF run = <<>> THEN <<>> ELSE <<run>>)
    ELSE IF IsTerminator(s[i])
         THEN ReFindAllFrom(s, i + 1, Append(run, s[i]))
         ELSE (IF run = <<>> THEN <<>> ELSE <<run>>) \o ReFindAllFrom(s, i + 1, <<>>)

ReFindAll(s) == ReFindAllFrom(s, 1, <<>>)

\* str.split(): the maximal runs of non-blank characters.
RECURSIVE SplitWordsFrom(_, _, _)
SplitWordsFrom(s, i, cur) ==
    IF i > Len(s) THEN (IF cur = <<>> THEN <<>> ELSE <<cur>>)
    ELSE IF IsSpace(s[i])
         THEN (IF cur = <<>> THEN <<>> ELSE <<cur>>) \o SplitWordsFrom(s, i + 1, <<>>)
         ELSE SplitWordsFrom(s, i + 1, Append(cur, s[i]))

SplitWords(s) == SplitWordsFrom(s, 1, <<>>)

\* [word[i:i+n] for i in range(0, len(word), n)]
RECURSIVE Slices(_, _)
Slices(word, n) ==
    IF word = <<>> THEN <<>>
    ELSE <<SubSeq(word, 1, Min(n, Len(word)))>>
         \o Slices(SubSeq(word, Min(n, Len(word)) + 1, Len(word)), n)

(***************************************************************************)
(* TextProcessor._split_long_sentence                                      *)
(***************************************************************************)
\* One pass of the loop over words; st = [chunks, current_chunk].
SplitWordStep(st, word, n) ==
    IF Len(st.current_chunk) + Len(word) + 1 <= n
    THEN IF st.current_chunk # <<>>
         THEN [st EXCEPT !.current_chunk = st.current_chunk \o <<" ">> \o word]
         ELSE [st EXCEPT !.current_chunk = word]
    ELSE IF st.current_chunk # <<>>
         THEN [chunks |-> Append(st.chunks, st.current_chunk), current_chunk |-> word]
         ELSE IF Len(word) > n
              THEN [st EXCEPT !.chunks = st.chunks \o Slices(word, n)]
              ELSE [st EXCEPT !.current_chunk = word]

RECURSIVE SplitWordLoop(_, _, _)
SplitWordLoop(st, words, n) ==
    IF words = <<>> THEN st
    ELSE SplitWordLoop(SplitWordStep(st, Head(words), n), Tail(words), n)

SplitLongSentence(sentence, n) ==
    IF Len(sentence) <= n THEN <<sentence>>
    ELSE LET st == SplitWordLoop([chunks |-> <<>>, current_chunk |-> <<>>],
                                 SplitWords(sentence), n)
         IN  IF st.current_chunk # <<>>
             THEN Append(st.chunks, st.current_chunk)
             ELSE st.chunks

(***************************************************************************)
(* TextProcessor.chunk_text                                                *)
(***************************************************************************)
\* ContentChunk; the id is the digest of source_url and position.
ContentChunk(url, position, text, count) ==
    [id |-> <<url, position>>, text |-> text, source_url |-> url,
     position |-> position, char_count |-> count]

\* The sub-chunks of one over-long sentence, numbered from position.
RECURSIVE SubChunks(_, _, _)
SubChunks(subs, url, position) ==
    IF subs = <<>> THEN <<>>
    ELSE <<ContentChunk(url, position, Head(subs), Len(Head(subs)))>>
         \o SubChunks(Tail(subs), url, position + 1)

\* sentence_with_ending for the i-th piece (0-based i, as in the code).
SentenceWithEnding(sentence, i, nSentences, endings) ==
    LET ending == IF i < Len(endings)
                  THEN endings[Min(i, Len(endings) - 1) + 1]
                  ELSE <<".">>
    IN  IF i < nSentences - 1 \/ ending # <<".">>
        THEN sentence \o ending
        ELSE sentence

\* One pass of the loop over sentences; st = [chunks, position, current_chunk].
ChunkStep(st, swe, url, n) ==
    IF Len(st.current_chunk) + Len(swe) + (IF st.current_chunk # <<>> THEN 1 ELSE 0) <= n
    THEN IF st.current_chunk # <<>>
         THEN [st EXCEPT !.current_chunk = st.current_chunk \o <<" ">> \o swe]
         ELSE [st EXCEPT !.current_chunk = swe]
    ELSE IF st.current_chunk # <<>>
         THEN [chunks |-> Append(st.chunks,
                                 ContentChunk(url, st.position, Strip(st.current_chunk),
                                              Len(st.current_chunk))),
               position |-> st.position + 1,
               current_chunk |-> swe]
         ELSE IF Len(swe) > n
              THEN LET subs == SplitLongSentence(swe, n)
                   IN  [st EXCEPT !.chunks = st.chunks \o SubChunks(subs, url, st.position),
                                  !.position = st.position + Len(subs)]
              ELSE [st EXCEPT !.current_chunk = swe]

RECURSIVE ChunkLoop(_, _, _, _, _, _)
ChunkLoop(st, sentences, endings, i, url, n) ==
    IF i >= Len(sentences) THEN st
    ELSE LET sentence == Strip(sentences[i + 1])
         IN  IF sentence = <<>>
             THEN ChunkLoop(st, sentences, endings, i + 1, url, n)
             ELSE ChunkLoop(ChunkStep(st,
                                      SentenceWithEnding(sentence, i, Len(sentences), endings),
                                      url, n),
                            sentences, endings, i + 1, url, n)

ChunkText(text, url, n) ==
    IF Len(text) <= n
    THEN <<ContentChunk(url, 0, text, Len(text))>>
    ELSE LET st == ChunkLoop([chunks |-> <<>>, position |-> 0, current_chunk |-> <<>>],
                             ReSplit(text), ReFindAll(text), 0, url, n)
         IN  IF st.current_chunk # <<>>
             THEN Append(st.chunks,
                         ContentChunk(url, st.position, Strip(st.current_chunk),
                                      Len(st.current_chunk)))
             ELSE st.chunks

(***************************************************************************)
(* ingest.py: the checkpoint file                                          *)
(***************************************************************************)
PageUrls == {"A", "B", "C"}

Range(s) == {s[k] : k \in 1..Len(s)}

\* A sitemap of distinct pages, long enough for periodic saves.
PageUrl(k) == "p" \o ToString(k)

LongSitemap == [k \in 1..LongSitemapLen |-> PageUrl(k)]

NoCheckpoint == [exists |-> FALSE, processed_urls |-> <<>>, failed_urls |-> <<>>]

\* save_progress: the file holds the two lists as they are now.
SaveProgress(processed_urls, failed_urls) ==
    [exists |-> TRUE, processed_urls |-> processed_urls, failed_urls |-> failed_urls]

\* load_progress: the file's lists, or two empty lists when there is no file.
LoadProgress(ckpt) ==
    IF ckpt.exists
    THEN [processed_urls |-> ckpt.processed_urls, failed_urls |-> ckpt.failed_urls]
    ELSE [processed_urls |-> <<>>, failed_urls |-> <<>>]

\* [url_data for url_data in sitemap_urls if url_data['url'] not in processed_urls]
NotProcessed(sitemap_urls, processed_urls) ==
    LET Keep(u) == u \notin Range(processed_urls)
    IN  SelectSeq(sitemap_urls, Keep)

\* urls_to_process
UrlsToProcessAll(sitemap_urls, processed_urls, resume) == sitemap_urls

UrlsToProcess(sitemap_urls, processed_urls, resume) ==
    IF resume THEN NotProcessed(sitemap_urls, processed_urls) ELSE sitemap_urls

SaveEvery == 10

\* A save_progress call: the file is rewritten with the two lists.
WriteCheckpoint(processed_urls, failed_urls) ==
    /\ ig_ckpt' = SaveProgress(processed_urls, failed_urls)
    /\ ig_saves' = Append(ig_saves, [after |-> ig_i', processed_urls |-> processed_urls,
                                     failed_urls |-> failed_urls])

\* Lines 136-138: if (i + 1) % 10 == 0: save_progress(...)
PeriodicSaveNever(processed_urls, failed_urls) ==
    UNCHANGED <<ig_ckpt, ig_saves>>

PeriodicSave(processed_urls, failed_urls) ==
    IF (ig_i + 1) % SaveEvery = 0
    THEN WriteCheckpoint(processed_urls, failed_urls)
    ELSE UNCHANGED <<ig_ckpt, ig_saves>>

\* Extractions that failed in the current run.
FailuresThisRun == Len(SelectSeq(ig_attempts, LAMBDA a : a.outcome # "chunks"))

(***************************************************************************)
(* ingest.py: run_ingestion_pipeline                                       *)
(***************************************************************************)
IngestInit ==
    /\ ig_pc = "ready"
    /\ ig_run = 0
    /\ ig_resume = FALSE
    /\ ig_sitemap \in SeqsUpTo(PageUrls, MaxSitemapLen)
    /\ ig_ckpt = NoCheckpoint
    /\ ig_loaded = LoadProgress(NoCheckpoint)
    /\ ig_urls = <<>>
    /\ ig_i = 0
    /\ ig_processed = <<>>
    /\ ig_failed = <<>>
    /\ ig_newly = <<>>
    /\ ig_all_chunks = <<>>
    /\ ig_attempts = <<>>
    /\ ig_store = {}
    /\ ig_saves = <<>>
    /\ ig_calls = <<>>
    /\ ig_fail_budget = MaxSitemapLen

\* A pipeline about to run over a prefix of the long sitemap.  Earlier runs are
\* over; the last of them (over a sitemap of two pages, one processed, one
\* failed, stopped by create_embeddings raising) may have left its checkpoint.
IngestLongInit ==
    /\ ig_pc = "ready"
    /\ ig_run = MaxRuns - 1
    /\ ig_resume = FALSE
    /\ ig_sitemap \in {SubSeq(LongSitemap, 1, n) : n \in 0..LongSitemapLen}
    /\ ig_ckpt \in {NoCheckpoint, SaveProgress(<<PageUrl(1)>>, <<PageUrl(2)>>)}
    /\ ig_loaded = LoadProgress(NoCheckpoint)
    /\ ig_urls = <<>>
    /\ ig_i = 0
    /\ ig_processed = <<>>
    /\ ig_failed = <<>>
    /\ ig_newly = <<>>
    /\ ig_all_chunks = <<>>
    /\ ig_attempts = <<>>
    /\ ig_store = {}
    /\ ig_saves = <<>>
    /\ ig_calls = <<>>
    /\ ig_fail_budget = MaxLongFailures

IngestIdle ==
    /\ ig_pc = "idle"
    /\ ig_run = 0
    /\ ig_resume = FALSE
    /\ ig_sitemap = <<>>
    /\ ig_ckpt = NoCheckpoint
    /\ ig_loaded = LoadProgress(NoCheckpoint)
    /\ ig_urls = <<>>
    /\ ig_i = 0
    /\ ig_processed = <<>>
    /\ ig_failed = <<>>
    /\ ig_newly = <<>>
    /\ ig_all_chunks = <<>>
    /\ ig_attempts = <<>>
    /\ ig_store = {}
    /\ ig_saves = <<>>
    /\ ig_calls = <<>>
    /\ ig_fail_budget = MaxSitemapLen

\* Lines 80-116: load the sitemap, resume from or clear the checkpoint.
StartRun(resume) ==
    /\ ig_pc \in {"ready", "done", "aborted", "crashed"}
    /\ ig_run < MaxRuns
    /\ ig_run' = ig_run + 1
    /\ ig_resume' = resume
    /\ IF resume
       THEN /\ ig_loaded' = LoadProgress(ig_ckpt)
            /\ ig_processed' = LoadProgress(ig_ckpt).processed_urls
            /\ ig_failed' = LoadProgress(ig_ckpt).failed_urls
            /\ UNCHANGED ig_ckpt
       ELSE /\ ig_loaded' = LoadProgress(NoCheckpoint)
            /\ ig_processed' = <<>>
            /\ ig_failed' = <<>>
            /\ ig_ckpt' = NoCheckpoint
    /\ ig_urls' = UrlsToProcess(ig_sitemap, ig_processed', resume)
    /\ ig_all_chunks' = <<>>
    /\ ig_newly' = <<>>
    /\ ig_i' = 0
    /\ ig_attempts' = <<>>
    /\ ig_saves' = <<>>
    /\ ig_calls' = <<>>
    /\ ig_pc' = "loop"
    /\ UNCHANGED <<ig_sitemap, ig_store, ig_fail_budget>>
    /\ UNCHANGED notIngest

\* The except clause of the loop body (lines 132-134): the URL is recorded as
\* failed and the loop goes on.
OnExtractionErrorAbort(url) ==
    /\ ig_pc' = "aborted"
    /\ UNCHANGED <<ig_failed, ig_i, ig_processed, ig_newly, ig_all_chunks>>
    /\ WriteCheckpoint(ig_processed, ig_failed)

OnExtractionErrorUnrecorded(url) ==
    /\ ig_i' = ig_i + 1
    /\ PeriodicSave(ig_processed, ig_failed)
    /\ ig_pc' = "loop"
    /\ UNCHANGED <<ig_failed, ig_processed, ig_newly, ig_all_chunks>>

OnExtractionError(url) ==
    /\ ig_failed' = Append(ig_failed, url)
    /\ ig_i' = ig_i + 1
    /\ PeriodicSave(ig_processed, ig_failed')
    /\ ig_pc' = "loop"
    /\ UNCHANGED <<ig_processed, ig_newly, ig_all_chunks>>

\* Lines 118-138: one pass of the loop; extract_and_chunk_url returns chunks,
\* returns nothing, or raises.
ProcessUrl(outcome) ==
    /\ ig_pc = "loop"
    /\ ig_i < Len(ig_urls)
    /\ outcome # "chunks" => FailuresThisRun < ig_fail_budget
    /\ LET url == ig_urls[ig_i + 1]
       IN  /\ ig_attempts' = Append(ig_attempts, [url |-> url, outcome |-> outcome])
           /\ CASE outcome = "chunks" ->
                     /\ ig_all_chunks' = Append(ig_all_chunks, url)
                     /\ ig_newly' = Append(ig_newly, url)
                     /\ ig_processed' = Append(ig_processed, url)
                     /\ ig_i' = ig_i + 1
                     /\ UNCHANGED <<ig_failed, ig_pc>>
                     /\ PeriodicSave(ig_processed', ig_failed)
                [] outcome = "none" ->
                     /\ ig_failed' = Append(ig_failed, url)
                     /\ ig_i' = ig_i + 1
                     /\ UNCHANGED <<ig_processed, ig_newly, ig_all_chunks, ig_pc>>
                     /\ PeriodicSave(ig_processed, ig_failed')
                [] outcome = "raise" -> OnExtractionError(url)
    /\ UNCHANGED <<ig_run, ig_resume, ig_sitemap, ig_loaded, ig_urls, ig_store, ig_calls,
                   ig_fail_budget>>
    /\ UNCHANGED notIngest

\* Line 141: the final save after the loop.
FinalSave ==
    /\ ig_pc = "loop"
    /\ ig_i = Len(ig_urls)
    /\ ig_pc' = "saved"
    /\ UNCHANGED <<ig_run, ig_resume, ig_sitemap, ig_loaded, ig_urls, ig_i, ig_processed,
                   ig_failed, ig_newly, ig_all_chunks, ig_attempts, ig_store, ig_calls,
                   ig_fail_budget>>
    /\ WriteCheckpoint(ig_processed, ig_failed)
    /\ UNCHANGED notIngest

\* Lines 148-150: nothing to embed, the run returns.
ReturnNoChunks ==
    /\ ig_pc = "saved"
    /\ ig_all_chunks = <<>>
    /\ ig_pc' = "done"
    /\ UNCHANGED <<ig_run, ig_resume, ig_sitemap, ig_ckpt, ig_loaded, ig_urls, ig_i,
                   ig_processed, ig_failed, ig_newly, ig_all_chunks, ig_attempts, ig_store,
                   ig_saves, ig_calls, ig_fail_budget>>
    /\ UNCHANGED notIngest

\* Lines 152-172: embeddings are created and stored.
EmbedAndStoreAlways ==
    /\ ig_pc = "saved"
    /\ ig_store' = ig_store \cup Range(ig_all_chunks)
    /\ ig_calls' = ig_calls \o <<"create_embeddings", "store_content_chunks">>
    /\ ig_pc' = "stored"
    /\ UNCHANGED <<ig_run, ig_resume, ig_sitemap, ig_ckpt, ig_loaded, ig_urls, ig_i,
                   ig_processed, ig_failed, ig_newly, ig_all_chunks, ig_attempts,
                   ig_saves, ig_fail_budget>>
    /\ UNCHANGED notIngest

EmbedAndStore ==
    /\ ig_pc = "saved"
    /\ ig_all_chunks # <<>>
    /\ ig_store' = ig_store \cup Range(ig_all_chunks)
    /\ ig_calls' = ig_calls \o <<"create_embeddings", "store_content_chunks">>
    /\ ig_pc' = "stored"
    /\ UNCHANGED <<ig_run, ig_resume, ig_sitemap, ig_ckpt, ig_loaded, ig_urls, ig_i,
                   ig_processed, ig_failed, ig_newly, ig_all_chunks, ig_attempts,
                   ig_saves, ig_fail_budget>>
    /\ UNCHANGED notIngest

\* Lines 164-171 raising (create_embeddings, or store_content_chunks after
\* it), then lines 194-201: best-effort save and re-raise.
EmbedOrStoreFails(failing) ==
    /\ ig_pc = "saved"
    /\ ig_all_chunks # <<>>
    /\ ig_calls' = IF failing = "create_embeddings"
                   THEN Append(ig_calls, "create_embeddings")
                   ELSE ig_calls \o <<"create_embeddings", "store_content_chunks">>
    /\ ig_pc' = "aborted"
    /\ UNCHANGED <<ig_run, ig_resume, ig_sitemap, ig_loaded, ig_urls, ig_i, ig_processed,
                   ig_failed, ig_newly, ig_all_chunks, ig_attempts, ig_store,
                   ig_fail_budget>>
    /\ WriteCheckpoint(ig_processed, ig_failed)
    /\ UNCHANGED notIngest

\* all_expected_urls - all_processed_urls - all_failed_urls (lines 176-181)
UnprocessedUrls == (Range(ig_sitemap) \ Range(ig_processed)) \ Range(ig_failed)

\* Lines 174-192: validation and the completion report.
ValidateAndReport ==
    /\ ig_pc = "stored"
    /\ ig_pc' = "done"
    /\ UNCHANGED <<ig_run, ig_resume, ig_sitemap, ig_ckpt, ig_loaded, ig_urls, ig_i,
                   ig_processed, ig_failed, ig_newly, ig_all_chunks, ig_attempts, ig_store,
                   ig_saves, ig_calls, ig_fail_budget>>
    /\ UNCHANGED notIngest

\* The process is killed during the loop: no handler runs.
Crash ==
    /\ ig_pc = "loop"
    /\ ig_pc' = "crashed"
    /\ UNCHANGED <<ig_run, ig_resume, ig_sitemap, ig_ckpt, ig_loaded, ig_urls, ig_i,
                   ig_processed, ig_failed, ig_newly, ig_all_chunks, ig_attempts, ig_store,
                   ig_saves, ig_calls, ig_fail_budget>>
    /\ UNCHANGED notIngest

(***************************************************************************)
(* sitemap_loader.py                                                       *)
(***************************************************************************)
SitemapUrls == {"s1", "s2"}

\* A GET that fails, or a body that is not XML.
Unavailable == [ok |-> FALSE, urls |-> <<>>, sitemaps |-> <<>>]

\* What a sitemap URL answers: the <url> locations and the <sitemap>
\* locations of the document.
SitemapDocs ==
    {Unavailable} \cup
    {[ok |-> TRUE, urls |-> urls, sitemaps |-> sitemaps] :
        urls \in SeqsUpTo({"A"}, 1), sitemaps \in SeqsUpTo(SitemapUrls, MaxIndexEntries)}

\* Lines 67-73: no <url> element and at least one <sitemap> element.
IsSitemapIndex(doc) == doc.urls = <<>> /\ doc.sitemaps # <<>>

SitemapInit ==
    /\ sm_pc = "ready"
    /\ sm_top \in SitemapUrls
    /\ sm_web \in [SitemapUrls -> SitemapDocs]
    /\ sm_stack = <<>>
    /\ sm_fetches = 0
    /\ sm_urls = <<>>

SitemapIdle ==
    /\ sm_pc = "idle"
    /\ sm_top = "s1"
    /\ sm_web = [u \in SitemapUrls |-> Unavailable]
    /\ sm_stack = <<>>
    /\ sm_fetches = 0
    /\ sm_urls = <<>>

\* load_sitemap_urls / get_urls: fetch_sitemap, then parse_sitemap of the
\* top-level document (lines 170-171, 57-107).
LoadSitemapUrls ==
    /\ sm_pc = "ready"
    /\ sm_fetches' = sm_fetches + 1
    /\ LET doc == sm_web[sm_top]
       IN  IF ~doc.ok
           THEN /\ sm_pc' = "raised"
                /\ UNCHANGED <<sm_stack, sm_urls>>
           ELSE IF IsSitemapIndex(doc)
           THEN /\ sm_pc' = "index"
                /\ sm_stack' = <<[url |-> sm_top, k |-> 0]>>
                /\ UNCHANGED sm_urls
           ELSE /\ sm_pc' = "done"
                /\ sm_urls' = doc.urls
                /\ UNCHANGED sm_stack
    /\ UNCHANGED <<sm_top, sm_web>>
    /\ UNCHANGED notSitemap

\* The stack with the innermost call moved to its next <sitemap> entry.
NextEntry(stack) == [stack EXCEPT ![Len(stack)].k = @ + 1]

\* Lines 131-141: the next <sitemap> entry of the innermost index: its
\* document is fetched and handed to parse_sitemap, which for an index calls
\* _parse_sitemap_index again (line 73); a failing fetch or parse, the
\* interpreter's RecursionError among them, is logged and the entry skipped.
FetchChild ==
    /\ sm_pc = "index"
    /\ LET frame == sm_stack[Len(sm_stack)]
           entries == sm_web[frame.url].sitemaps
       IN  /\ frame.k < Len(entries)
           /\ LET child == entries[frame.k + 1]
                  doc == sm_web[child]
              IN  /\ sm_fetches' = sm_fetches + 1
                  /\ IF ~doc.ok
                     THEN /\ sm_stack' = NextEntry(sm_stack)
                          /\ UNCHANGED sm_urls
                     ELSE IF ~IsSitemapIndex(doc)
                     THEN /\ sm_stack' = NextEntry(sm_stack)
                          /\ sm_urls' = sm_urls \o doc.urls
                     ELSE IF Len(sm_stack) < RecursionLimit
                     THEN /\ sm_stack' = Append(sm_stack, [url |-> child, k |-> 0])
                          /\ UNCHANGED sm_urls
                     ELSE /\ sm_stack' = NextEntry(sm_stack)
                          /\ UNCHANGED sm_urls
    /\ UNCHANGED <<sm_pc, sm_top, sm_web>>
    /\ UNCHANGED notSitemap

\* Line 143: the innermost _parse_sitemap_index has no entry left and
\* returns; its caller extends its urls and goes on, or the load is over.
ReturnUrls ==
    /\ sm_pc = "index"
    /\ LET frame == sm_stack[Len(sm_stack)]
           rest == SubSeq(sm_stack, 1, Len(sm_stack) - 1)
       IN  /\ frame.k = Len(sm_web[frame.url].sitemaps)
           /\ IF rest = <<>>
              THEN /\ sm_pc' = "done"
                   /\ sm_stack' = <<>>
              ELSE /\ sm_pc' = "index"
                   /\ sm_stack' = NextEntry(rest)
    /\ UNCHANGED <<sm_top, sm_web, sm_fetches, sm_urls>>
    /\ UNCHANGED notSitemap

(***************************************************************************)
(* The chunker's states: any text, url and size, then the call.            *)
(***************************************************************************)
ChunkInit ==
    /\ ct_pc = "start"
    /\ ct_text \in SeqsUpTo(Chars, MaxTextLen)
    /\ ct_url \in Urls
    /\ ct_size \in 1..MaxChunkSize
    /\ ct_chunks = <<>>

ChunkIdle ==
    /\ ct_pc = "idle"
    /\ ct_text = <<>>
    /\ ct_url = "u1"
    /\ ct_size = 1
    /\ ct_chunks = <<>>

CallChunkText ==
    /\ ct_pc = "start"
    /\ ct_chunks' = ChunkText(ct_text, ct_url, ct_size)
    /\ ct_pc' = "done"
    /\ UNCHANGED <<ct_text, ct_url, ct_size>>
    /\ UNCHANGED notChunk

(***************************************************************************)
(* openrouter_client.py: CircuitBreaker                                    *)
(***************************************************************************)
\* last_failure_time = None (clock readings are never negative)
NoTime == -1

\* Python truthiness of last_failure_time: None and 0.0 are false.
Truthy(t) == t # NoTime /\ t # 0

\* CircuitBreaker.__init__
NewBreaker(failure_threshold, recovery_timeout) ==
    [state |-> "CLOSED", failure_count |-> 0, last_failure_time |-> NoTime,
     failure_threshold |-> failure_threshold, recovery_timeout |-> recovery_timeout]

\* The state property: an OPEN breaker turns HALF_OPEN once the recovery
\* timeout has passed; the breaker after the read.
StatePropertyNoWait(b, now) ==
    IF b.state = "OPEN" /\ Truthy(b.last_failure_time)
    THEN [b EXCEPT !.state = "HALF_OPEN"]
    ELSE b

StateProperty(b, now) ==
    IF b.state = "OPEN" /\ Truthy(b.last_failure_time)
       /\ now - b.last_failure_time >= b.recovery_timeout
    THEN [b EXCEPT !.state = "HALF_OPEN"]
    ELSE b

\* _open_circuit
OpenCircuit(b, now) == [b EXCEPT !.state = "OPEN", !.last_failure_time = now]

\* call, after the wrapped function returned; b is the breaker as call saw it.
CallSucceeded(b) ==
    IF b.state = "HALF_OPEN"
    THEN [b EXCEPT !.state = "CLOSED", !.failure_count = 0]
    ELSE b

\* call, after the wrapped function raised at time now.
CallFailedLate(b, now) ==
    IF b.state = "HALF_OPEN"
    THEN OpenCircuit(b, now)
    ELSE LET c == [b EXCEPT !.failure_count = b.failure_count + 1]
         IN  IF c.failure_count > c.failure_threshold THEN OpenCircuit(c, now) ELSE c

CallFailed(b, now) ==
    IF b.state = "HALF_OPEN"
    THEN OpenCircuit(b, now)
    ELSE LET c == [b EXCEPT !.failure_count = b.failure_count + 1]
         IN  IF c.failure_count >= c.failure_threshold THEN OpenCircuit(c, now) ELSE c

\* reset
ResetBreaker(b) ==
    [b EXCEPT !.state = "CLOSED", !.failure_count = 0, !.last_failure_time = NoTime]

NoOperation ==
    [op |-> "none", state_before |-> "CLOSED", open_for |-> -1, reported |-> "CLOSED",
     invoked |-> FALSE, result |-> "none", at |-> 0]

\* Time since the last opening, -1 when the breaker never opened.
OpenFor == IF cb_opened_at = NoTime THEN -1 ELSE clk_now - cb_opened_at

BreakerInit ==
    /\ clk_now \in 0..1
    /\ \E th \in 1..MaxThreshold, to \in 1..MaxTimeout : cb = NewBreaker(th, to)
    /\ cb_opened_at = NoTime
    /\ cb_streak = 0
    /\ cb_last = NoOperation

BreakerIdle ==
    /\ clk_now = 0
    /\ cb = NewBreaker(1, 1)
    /\ cb_opened_at = NoTime
    /\ cb_streak = 0
    /\ cb_last = NoOperation

\* Time passes.
Tick ==
    /\ clk_now < MaxTime
    /\ clk_now' = clk_now + 1
    /\ UNCHANGED <<cb, cb_opened_at, cb_streak, cb_last>>
    /\ UNCHANGED notBreaker

\* Somebody reads breaker.state.
ReadState ==
    /\ rq_pc # "attempt"
    /\ cb' = StateProperty(cb, clk_now)
    /\ cb_last' = [op |-> "read", state_before |-> cb.state, open_for |-> OpenFor,
                   reported |-> cb'.state, invoked |-> FALSE, result |-> "none",
                   at |-> clk_now]
    /\ UNCHANGED <<clk_now, cb_opened_at, cb_streak>>
    /\ UNCHANGED notBreaker

\* breaker.call(func): func runs for d seconds and returns or raises, unless
\* the breaker is OPEN and rejects the call.
BreakerCall(outcome, d) ==
    /\ rq_pc # "attempt"
    /\ clk_now + d <= MaxTime
    /\ LET seen == StateProperty(cb, clk_now)
       IN  IF seen.state = "OPEN"
           THEN /\ cb' = seen
                /\ cb_last' = [op |-> "call", state_before |-> cb.state,
                               open_for |-> OpenFor, reported |-> seen.state,
                               invoked |-> FALSE, result |-> "circuit_open",
                               at |-> clk_now]
                /\ UNCHANGED <<clk_now, cb_opened_at, cb_streak>>
           ELSE /\ clk_now' = clk_now + d
                /\ cb' = IF outcome = "return" THEN CallSucceeded(seen)
                                               ELSE CallFailed(seen, clk_now')
                /\ cb_opened_at' = IF cb'.state = "OPEN" THEN clk_now' ELSE cb_opened_at
                /\ cb_streak' = IF outcome = "return" THEN 0 ELSE cb_streak + 1
                /\ cb_last' = [op |-> "call", state_before |-> cb.state,
                               open_for |-> OpenFor, reported |-> seen.state,
                               invoked |-> TRUE,
                               result |-> IF outcome = "return" THEN "returned"
                                                                ELSE "raised",
                               at |-> clk_now']
    /\ UNCHANGED notBreaker

\* breaker.reset()
Reset ==
    /\ rq_pc # "attempt"
    /\ cb' = ResetBreaker(cb)
    /\ cb_opened_at' = NoTime
    /\ cb_streak' = 0
    /\ cb_last' = [op |-> "reset", state_before |-> cb.state, open_for |-> OpenFor,
                   reported |-> "CLOSED", invoked |-> FALSE, result |-> "none",
                   at |-> clk_now]
    /\ UNCHANGED clk_now
    /\ UNCHANGED notBreaker

(***************************************************************************)
(* openrouter_client.py: RateLimiter                                       *)
(***************************************************************************)
\* [call_time for call_time in self.calls if now - call_time < self.time_window]
InWindowInclusive(calls, now, time_window) ==
    LET Recent(t) == now - t <= time_window
    IN  SelectSeq(calls, Recent)

InWindow(calls, now, time_window) ==
    LET Recent(t) == now - t < time_window
    IN  SelectSeq(calls, Recent)

\* wait_if_needed at clock now, time.sleep lasting overslept seconds more than
\* asked: the calls list and the clock afterwards.
WaitIfNeededOversleeping(calls, now, max_calls, time_window, overslept) ==
    LET kept == InWindow(calls, now, time_window)
    IN  IF Len(kept) >= max_calls /\ time_window - (now - kept[1]) > 0
        THEN LET woke == now + (time_window - (now - kept[1])) + overslept
             IN  [calls |-> Append(InWindow(kept, woke, time_window), woke), now |-> woke]
        ELSE [calls |-> Append(kept, now), now |-> now]

\* wait_if_needed when time.sleep lasts exactly the time asked for.
WaitIfNeeded(calls, now, max_calls, time_window) ==
    WaitIfNeededOversleeping(calls, now, max_calls, time_window, 0)

\* A limiter of its own: RateLimiter(max_calls, time_window).
LimiterInit ==
    /\ lm_max_calls \in 1..MaxLimiterCalls
    /\ lm_time_window \in 1..MaxLimiterWindow
    /\ lm_returns = <<>>

LimiterIdle ==
    /\ lm_max_calls = 1
    /\ lm_time_window = 1
    /\ lm_returns = <<>>

\* One wait_if_needed call (lines 27-43).
CallWaitIfNeeded(overslept) ==
    /\ Len(lm_returns) < MaxWaits
    /\ LET rl == WaitIfNeededOversleeping(rl_calls, clk_now, lm_max_calls, lm_time_window,
                                          overslept)
       IN  /\ rl_calls' = rl.calls
           /\ clk_now' = rl.now
           /\ lm_returns' = Append(lm_returns, rl.now)
    /\ UNCHANGED <<lm_max_calls, lm_time_window>>
    /\ UNCHANGED <<cb, cb_opened_at, cb_streak, cb_last>>
    /\ UNCHANGED <<rq_pc, rq_count, rq_max_retries, rq_branch, rq_attempt, rq_posts, rq_last,
                   rq_slept, rq_all5xx, rq_result, rq_down, rq_post_times>>
    /\ UNCHANGED notLimiter

(***************************************************************************)
(* openrouter_client.py: OpenRouterClient                                  *)
(***************************************************************************)
\* What the gateway does with one POST: a status (200 with a first choice,
\* 200 without choices, 200 with a body that makes the parsing raise, other
\* statuses) or an exception of requests.
Outcomes ==
    {"200", "200_no_choices", "200_malformed", "429", "400", "401", "403", "404",
     "503", "302", "Timeout", "ConnectionError", "RequestException"}

\* Lines 159-233: what _make_request does with an outcome.
\*   "answer"  return the content          "give_up" return None at once
\*   "retry"   sleep and go on unless this was the last attempt, then return None
\*   "backoff" sleep and go on, whatever the attempt
DispositionGiveUpOn5xx(outcome) ==
    CASE outcome = "200" -> "answer"
      [] outcome = "429" -> "backoff"
      [] outcome \in {"400", "401", "403", "404", "503"} -> "give_up"
      [] OTHER -> "retry"

DispositionRetry404(outcome) ==
    CASE outcome = "200" -> "answer"
      [] outcome = "429" -> "backoff"
      [] outcome \in {"400", "401", "403"} -> "give_up"
      [] OTHER -> "retry"

Disposition(outcome) ==
    CASE outcome = "200" -> "answer"
      [] outcome = "200_no_choices" -> "retry"
      [] outcome = "429" -> "backoff"
      [] outcome \in {"400", "401", "403", "404"} -> "give_up"
      [] outcome = "503" -> "retry"
      [] outcome = "302" -> "retry"
      [] outcome \in {"200_malformed", "Timeout", "ConnectionError", "RequestException"} ->
             "retry"

\* The exception an outcome raises inside the try of the loop ("" when none).
RaisedBy(outcome) ==
    CASE outcome = "200_malformed" -> "Exception"
      [] outcome \in {"Timeout", "ConnectionError", "RequestException"} -> outcome
      [] OTHER -> ""

\* Lines 214-233: the except clauses of the loop catch every Exception.
AttemptCatches(kind) ==
    kind \in {"Timeout", "ConnectionError", "RequestException", "Exception"}

\* Lines 251-254: send_request's except Exception.
SendRequestCatchesRequestErrors(kind) ==
    kind \in {"Timeout", "ConnectionError", "RequestException"}

SendRequestCatches(kind) ==
    kind \in {"Timeout", "ConnectionError", "RequestException", "Exception", "CircuitOpen"}

\* The POST times later than a given time.
PostsSince(times, since) == SelectSeq(times, LAMBDA t : t > since)

\* attempt < self.config.MAX_RETRIES - 1
NotLastAttempt(attempt, max_retries) == attempt < max_retries - 1

ClientInit ==
    /\ rq_pc = "idle"
    /\ rq_count = 0
    /\ rq_max_retries \in 0..MaxRetries
    /\ rq_branch = "CLOSED"
    /\ rq_attempt = 0
    /\ rq_posts = 0
    /\ rq_last = "none"
    /\ rq_slept = 0
    /\ rq_all5xx = TRUE
    /\ rq_result = "None"
    /\ rq_down = 0
    /\ rq_post_times = <<>>
    /\ rl_calls = <<>>

ClientIdle ==
    /\ rq_pc = "idle"
    /\ rq_count = 0
    /\ rq_max_retries = 0
    /\ rq_branch = "CLOSED"
    /\ rq_attempt = 0
    /\ rq_posts = 0
    /\ rq_last = "none"
    /\ rq_slept = 0
    /\ rq_all5xx = TRUE
    /\ rq_result = "None"
    /\ rq_down = 0
    /\ rq_post_times = <<>>
    /\ rl_calls = <<>>

\* OpenRouterClient.__init__: the breaker of the client.
ClientBreakerInit ==
    /\ clk_now \in 0..1
    /\ cb = NewBreaker(rq_max_retries + 2, RecoveryTimeout)
    /\ cb_opened_at = NoTime
    /\ cb_streak = 0
    /\ cb_last = NoOperation

\* send_request up to the first POST: the breaker lets the call in or
\* rejects it, then _make_request applies the rate limiter.
SendRequest ==
    /\ rq_pc \in {"idle", "returned"}
    /\ rq_count < MaxRequests
    /\ rq_count' = rq_count + 1
    /\ rq_attempt' = 0
    /\ rq_posts' = 0
    /\ rq_last' = "none"
    /\ rq_slept' = 0
    /\ rq_all5xx' = TRUE
    /\ LET seen == StateProperty(cb, clk_now)
       IN  /\ cb' = seen
           /\ IF seen.state = "OPEN"
              THEN /\ cb_last' = [op |-> "call", state_before |-> cb.state,
                                  open_for |-> OpenFor, reported |-> seen.state,
                                  invoked |-> FALSE, result |-> "circuit_open",
                                  at |-> clk_now]
                   /\ rq_pc' = IF SendRequestCatches("CircuitOpen") THEN "returned"
                                                                     ELSE "raised"
                   /\ rq_result' = "None"
                   /\ UNCHANGED <<clk_now, rl_calls, rq_branch>>
              ELSE LET rl == WaitIfNeeded(rl_calls, clk_now, RlMaxCalls, RlTimeWindow)
                   IN  /\ rl_calls' = rl.calls
                       /\ clk_now' = rl.now
                       /\ rq_branch' = seen.state
                       /\ rq_pc' = "attempt"
                       /\ UNCHANGED <<cb_last, rq_result>>
    /\ rq_post_times' = <<>>
    /\ UNCHANGED <<rq_max_retries, rq_down, cb_opened_at, cb_streak>>
    /\ UNCHANGED notClient

\* _make_request returned value to CircuitBreaker.call, which returns it to
\* send_request, which returns it.
Returned(value) ==
    /\ cb' = CallSucceeded([cb EXCEPT !.state = rq_branch])
    /\ cb_streak' = 0
    /\ cb_last' = [op |-> "call", state_before |-> rq_branch, open_for |-> OpenFor,
                   reported |-> rq_branch, invoked |-> TRUE, result |-> "returned",
                   at |-> clk_now']
    /\ rq_pc' = "returned"
    /\ rq_result' = value
    /\ rq_down' = IF value = "None" /\ rq_all5xx' /\ rq_posts' >= 1 THEN rq_down + 1 ELSE 0
    /\ UNCHANGED cb_opened_at

\* An exception left _make_request: CircuitBreaker.call counts it and
\* re-raises it to send_request.
Escaped(kind) ==
    /\ cb' = CallFailed([cb EXCEPT !.state = rq_branch], clk_now')
    /\ cb_opened_at' = IF cb'.state = "OPEN" THEN clk_now' ELSE cb_opened_at
    /\ cb_streak' = cb_streak + 1
    /\ cb_last' = [op |-> "call", state_before |-> rq_branch, open_for |-> OpenFor,
                   reported |-> rq_branch, invoked |-> TRUE, result |-> "raised",
                   at |-> clk_now']
    /\ rq_pc' = IF SendRequestCatches(kind) THEN "returned" ELSE "raised"
    /\ rq_result' = "None"
    /\ UNCHANGED rq_down

\* The loop goes on after a sleep of 2 ** attempt seconds.
SleepAndContinue ==
    /\ rq_slept' = 2 ^ rq_attempt
    /\ clk_now' = clk_now + 2 ^ rq_attempt
    /\ rq_attempt' = rq_attempt + 1
    /\ UNCHANGED <<rq_pc, rq_result, rq_down, cb, cb_opened_at, cb_streak, cb_last>>

\* Lines 150-233: one pass of the loop of _make_request: a POST, its
\* outcome, and what the code does with it.
Attempt(outcome) ==
    /\ rq_pc = "attempt"
    /\ rq_attempt < rq_max_retries
    /\ rq_posts' = rq_posts + 1
    /\ rq_post_times' = Append(PostsSince(rq_post_times, clk_now - RlTimeWindow), clk_now)
    /\ rq_last' = outcome
    /\ rq_all5xx' = (rq_all5xx /\ outcome = "503")
    /\ IF RaisedBy(outcome) # "" /\ ~AttemptCatches(RaisedBy(outcome))
       THEN /\ UNCHANGED <<clk_now, rq_attempt>> /\ rq_slept' = 0
            /\ Escaped(RaisedBy(outcome))
       ELSE CASE Disposition(outcome) = "answer" ->
                     /\ UNCHANGED <<clk_now, rq_attempt>> /\ rq_slept' = 0
                     /\ Returned("content")
              [] Disposition(outcome) = "give_up" ->
                     /\ UNCHANGED <<clk_now, rq_attempt>> /\ rq_slept' = 0
                     /\ Returned("None")
              [] Disposition(outcome) = "backoff" -> SleepAndContinue
              [] Disposition(outcome) = "retry" ->
                     IF NotLastAttempt(rq_attempt, rq_max_retries)
                     THEN SleepAndContinue
                     ELSE /\ UNCHANGED <<clk_now, rq_attempt>> /\ rq_slept' = 0
                          /\ Returned("None")
    /\ UNCHANGED <<rq_count, rq_max_retries, rq_branch, rl_calls>>
    /\ UNCHANGED notClient

\* Lines 235-236: the loop ended without a return.
RetriesExceeded ==
    /\ rq_pc = "attempt"
    /\ rq_attempt >= rq_max_retries
    /\ UNCHANGED <<clk_now, rq_count, rq_max_retries, rq_branch, rq_attempt, rq_posts,
                   rq_last, rq_slept, rq_all5xx, rq_post_times, rl_calls>>
    /\ Returned("None")
    /\ UNCHANGED notClient

(***************************************************************************)
(* qdrant_client.py: QdrantStorage                                         *)
(***************************************************************************)
Writers == {"w1", "w2"}

\* The (text, url) pairs handed to the store: two chunks of one page.
StoreTexts == {<<"t">>, <<"s">>}

StoreUrls == {<<"u">>}

StorePairs == {[text |-> text, url |-> url] : text \in StoreTexts, url \in StoreUrls}

\* _generate_content_hash: SHA-256 of f"{url}::{text}".  A digest is
\* represented by the string it was computed from: equal strings give equal
\* digests, different strings different digests.
GenerateContentHash(text, url) == url \o <<":", ":">> \o text

\* point_id = abs(int(content_hash[:16], 16)): the 16 leading hex digits of
\* the digest, which tell the digests of the model apart.
PointIdOneDigit(content_hash) == SubSeq(content_hash, 1, 1)

PointId(content_hash) == content_hash

\* models.PointStruct(id, vector, payload); position stands for the caller's
\* metadata (chunk_id, position, title, char_count).
PointStruct(item, position) ==
    LET content_hash == GenerateContentHash(item.text, item.url)
    IN  [id |-> PointId(content_hash),
         payload |-> [text |-> item.text, url |-> item.url, position |-> position,
                      content_hash |-> content_hash]]

\* client.upsert(points=batch): each point replaces the point of its id.
UpsertKeepOld(collection, batch) == collection \cup Range(batch)

RECURSIVE Upsert(_, _)
Upsert(collection, batch) ==
    IF batch = <<>> THEN collection
    ELSE Upsert({q \in collection : q.id # Head(batch).id} \cup {Head(batch)}, Tail(batch))

\* The points client.scroll finds for a content_hash filter.
PointsWithHash(collection, content_hash) ==
    {q \in collection : q.payload.content_hash = content_hash}

\* _check_duplicate: a failing scroll counts as "no duplicate".
CheckDuplicate(collection, content_hash, scroll_ok) ==
    scroll_ok /\ PointsWithHash(collection, content_hash) # {}

\* The batch sizes a caller passes.
BatchSizes == {1, 2}

\* Line 131: the three lists have the same length.
LengthsMatchEmbeddingsOnly(n_texts, n_embeddings, n_metadata) ==
    n_texts = n_embeddings

LengthsMatch(n_texts, n_embeddings, n_metadata) ==
    n_texts = n_embeddings /\ n_texts = n_metadata

\* zip(texts, embeddings, metadata_list): the texts paired with the urls of
\* metadata_list, as many as the shortest of the three lists has.
Zip(texts, n_embeddings, urls) ==
    [k \in 1..Min(Len(texts), Min(n_embeddings, Len(urls))) |->
        [text |-> texts[k], url |-> urls[k]]]

\* The inputs of a call beside its texts: as many embeddings as texts or one
\* more, and as many metadata entries as texts or one fewer.
EmbeddingCounts(texts) == {Len(texts), Len(texts) + 1}

MetadataUrls(texts) ==
    {urls \in SeqsUpTo(StoreUrls, Len(texts)) : Len(urls) >= Len(texts) - 1}

\* A writer's call: its arguments, its position, and the numbers of
\* _check_duplicate and client.upsert calls it has made.
IdleWriter ==
    [pc |-> "idle", op |-> "none", lengths |-> <<0, 0, 0>>, items |-> <<>>, i |-> 0,
     points |-> <<>>, skip_duplicates |-> TRUE, batch_size |-> 1, checks |-> 0,
     upserts |-> 0]

StoreInit ==
    /\ st_collection = {}
    /\ st_w = [w \in Writers |-> IdleWriter]
    /\ st_calls = 0
    /\ st_stored = {}
    /\ st_repeat = {}

\* The call of a writer is over: when it ran with skip_duplicates its pairs
\* are recorded, with the pairs that came twice in the call or that an earlier
\* call had stored.
Completed(writer) ==
    LET items == writer.items
        twice == {items[j] : j \in {j \in DOMAIN items :
                                       \E k \in DOMAIN items : k # j /\ items[k] = items[j]}}
        again == Range(items) \cap st_stored
    IN  IF writer.skip_duplicates
        THEN /\ st_stored' = st_stored \cup Range(items)
             /\ st_repeat' = st_repeat
                    \cup {[pair |-> x, how |-> "same_call"] : x \in twice}
                    \cup {[pair |-> x, how |-> "successive_calls"] : x \in again}
        ELSE UNCHANGED <<st_stored, st_repeat>>

\* store_embeddings(texts, embeddings, metadata_list, batch_size,
\* skip_duplicates) up to the loop; urls are the urls of metadata_list and
\* n_embeddings is len(embeddings).
StoreEmbeddings(w, texts, n_embeddings, urls, batch_size, skip_duplicates) ==
    /\ st_w[w].pc \in {"idle", "done", "raised"}
    /\ st_calls < MaxStoreCalls
    /\ st_calls' = st_calls + 1
    /\ LET matched == LengthsMatch(Len(texts), n_embeddings, Len(urls))
           items == IF matched THEN Zip(texts, n_embeddings, urls) ELSE <<>>
           writer == [pc |-> IF ~matched THEN "raised"
                             ELSE IF items = <<>> THEN "done" ELSE "checking",
                      op |-> "store_embeddings",
                      lengths |-> <<Len(texts), n_embeddings, Len(urls)>>,
                      items |-> items, i |-> 0, points |-> <<>>,
                      skip_duplicates |-> skip_duplicates, batch_size |-> batch_size,
                      checks |-> 0, upserts |-> 0]
       IN  /\ st_w' = [st_w EXCEPT ![w] = writer]
           /\ IF writer.pc = "done" THEN Completed(writer)
              ELSE UNCHANGED <<st_stored, st_repeat>>
    /\ UNCHANGED st_collection
    /\ UNCHANGED notStore

\* store_embedding(text, embedding, metadata, skip_duplicates) up to the check.
StoreEmbedding(w, item, skip_duplicates) ==
    /\ st_w[w].pc \in {"idle", "done", "raised"}
    /\ st_calls < MaxStoreCalls
    /\ st_calls' = st_calls + 1
    /\ st_w' = [st_w EXCEPT ![w] =
                   [pc |-> "checking", op |-> "store_embedding", lengths |-> <<1, 1, 1>>,
                    items |-> <<item>>, i |-> 0, points |-> <<>>,
                    skip_duplicates |-> skip_duplicates, batch_size |-> 1,
                    checks |-> 0, upserts |-> 0]]
    /\ UNCHANGED <<st_collection, st_stored, st_repeat>>
    /\ UNCHANGED notStore

\* One pass of the loop of store_embeddings (lines 138-164; lines 190-213 of
\* store_embedding): hash, duplicate check, point.
CheckItem(w, scroll_ok) ==
    /\ st_w[w].pc = "checking"
    /\ LET cur == st_w[w]
           item == cur.items[cur.i + 1]
           content_hash == GenerateContentHash(item.text, item.url)
           duplicate == cur.skip_duplicates
                            /\ CheckDuplicate(st_collection, content_hash, scroll_ok)
           points == IF duplicate THEN cur.points
                     ELSE Append(cur.points, PointStruct(item, cur.i))
           pc == IF cur.i + 1 < Len(cur.items) THEN "checking"
                 ELSE IF points # <<>> THEN "upserting" ELSE "done"
           writer == [cur EXCEPT !.i = cur.i + 1, !.points = points, !.pc = pc,
                                 !.checks = IF cur.skip_duplicates THEN @ + 1 ELSE @]
       IN  /\ st_w' = [st_w EXCEPT ![w] = writer]
           /\ IF pc = "done" THEN Completed(writer)
              ELSE UNCHANGED <<st_stored, st_repeat>>
    /\ UNCHANGED <<st_collection, st_calls>>
    /\ UNCHANGED notStore

\* Lines 166-175 (215-218): one client.upsert of the next batch.
UpsertBatch(w) ==
    /\ st_w[w].pc = "upserting"
    /\ LET cur == st_w[w]
           n == Min(cur.batch_size, Len(cur.points))
           rest == SubSeq(cur.points, n + 1, Len(cur.points))
           writer == [cur EXCEPT !.points = rest, !.upserts = @ + 1,
                                 !.pc = IF rest = <<>> THEN "done" ELSE "upserting"]
       IN  /\ st_collection' = Upsert(st_collection, SubSeq(cur.points, 1, n))
           /\ st_w' = [st_w EXCEPT ![w] = writer]
           /\ IF writer.pc = "done" THEN Completed(writer)
              ELSE UNCHANGED <<st_stored, st_repeat>>
    /\ UNCHANGED st_calls
    /\ UNCHANGED notStore

\* client.upsert raises: the call ends with the exception.
UpsertFails(w) ==
    /\ st_w[w].pc = "upserting"
    /\ st_w' = [st_w EXCEPT ![w].pc = "raised", ![w].upserts = @ + 1]
    /\ UNCHANGED <<st_collection, st_calls, st_stored, st_repeat>>
    /\ UNCHANGED notStore

StoreIdle ==
    /\ st_collection = {}
    /\ st_w = [w \in {"w1", "w2"} |-> [pc |-> "unused"]]
    /\ st_calls = 0
    /\ st_stored = {}
    /\ st_repeat = {}

(***************************************************************************)
(* prompt_constructor.py.  Strings are TLA+ strings, the templates are the *)
(* literals of the source.                                                 *)
(***************************************************************************)
\* The character of str at position i (1-based).
CharAt(str, i) == SubSeq(str, i, i)

\* not (s and s.strip()): empty or whitespace only.
IsBlank(str) == \A i \in 1..Len(str) : CharAt(str, i) \in {" ", "\n", "\t"}

\* sub in str
Contains(str, sub) ==
    \E i \in 1..(Len(str) - Len(sub) + 1) : SubSeq(str, i, i + Len(sub) - 1) = sub

\* "\n".join(chunks)
RECURSIVE JoinLines(_)
JoinLines(chunks) ==
    IF chunks = <<>> THEN ""
    ELSE IF Len(chunks) = 1 THEN chunks[1]
    ELSE chunks[1] \o "\n" \o JoinLines(Tail(chunks))

\* str.rfind(' '): 0-based index of the last blank, -1 when there is none.
RFindSpace(str) ==
    LET at == {i \in 1..Len(str) : CharAt(str, i) = " "}
    IN  IF at = {} THEN -1 ELSE (CHOOSE i \in at : \A j \in at : j <= i) - 1

\* [chunk for chunk in context_chunks if chunk and chunk.strip()]
FilterContextKeepBlank(chunks) == SelectSeq(chunks, LAMBDA chunk : chunk # "")

FilterContext(chunks) == SelectSeq(chunks, LAMBDA chunk : ~IsBlank(chunk))

GroundingInstructions ==
    "Instructions: Answer the question using ONLY the provided context. Do not use any prior knowledge or information not present in the context. If the context does not contain sufficient information to answer the question, respond with \"I cannot answer this question based on the provided context.\" Ensure your answer is directly supported by the information in the context section above."

NoContextInstructions ==
    "Instructions: The context needed to answer this question is not available. Respond with \"I cannot answer this question based on the provided context.\" Do not attempt to answer using any prior knowledge."

\* _create_prompt_without_context
CreatePromptWithoutContext(query) ==
    "Question: " \o query \o "\n\n" \o NoContextInstructions

\* Lines 45-54: the truncation of the joined context (max_len = 0 is None).
TruncateContext(context_text, max_len) ==
    IF max_len # 0 /\ Len(context_text) > max_len
    THEN LET cut == SubSeq(context_text, 1, max_len)
             last_space == RFindSpace(cut)
         IN  IF max_len < Len(cut) /\ last_space > 0
             THEN SubSeq(cut, 1, last_space)
             ELSE cut
    ELSE context_text

\* Lines 56-62: the prompt with its context section.
PromptWithContextLowercase(query, context_text) ==
    "context:\n" \o context_text \o "\n\nQuestion: " \o query \o "\n\n"
        \o GroundingInstructions

PromptWithContext(query, context_text) ==
    "Context:\n" \o context_text \o "\n\nQuestion: " \o query \o "\n\n"
        \o GroundingInstructions

\* construct_prompt: [raised |-> TRUE] for the ValueError, else the prompt.
ConstructPrompt(query, context_chunks, max_len) ==
    IF IsBlank(query) THEN [raised |-> TRUE, prompt |-> ""]
    ELSE IF context_chunks = <<>>
    THEN [raised |-> FALSE, prompt |-> CreatePromptWithoutContext(query)]
    ELSE LET filtered_context == FilterContext(context_chunks)
         IN  IF filtered_context = <<>>
             THEN [raised |-> FALSE, prompt |-> CreatePromptWithoutContext(query)]
             ELSE [raised |-> FALSE,
                   prompt |-> PromptWithContext(query,
                                  TruncateContext(JoinLines(filtered_context), max_len))]

\* validate_prompt_format
ValidatePromptFormat(prompt) ==
    /\ ~IsBlank(prompt)
    /\ Contains(prompt, "Context:")
    /\ Contains(prompt, "Question:")
    /\ Contains(prompt, "Instructions:")

\* The queries and context chunks handed to construct_prompt.
Queries == {"", " \n", "q", "why q?", "Context: q"}

ContextChunks == {"", " ", "\n", "c d", "Context: c"}

PromptInit ==
    /\ pr_pc = "idle"
    /\ pr_query \in Queries
    /\ pr_chunks \in SeqsUpTo(ContextChunks, MaxContextChunks)
    /\ pr_max_len \in 0..MaxContextLength
    /\ pr_prompt = ""
    /\ pr_valid = FALSE

PromptIdle ==
    /\ pr_pc = "unused"
    /\ pr_query = ""
    /\ pr_chunks = <<>>
    /\ pr_max_len = 0
    /\ pr_prompt = ""
    /\ pr_valid = FALSE

\* The call construct_prompt(query, context_chunks, max_context_length).
CallConstructPrompt ==
    /\ pr_pc = "idle"
    /\ LET r == ConstructPrompt(pr_query, pr_chunks, pr_max_len)
       IN  /\ pr_pc' = IF r.raised THEN "raised" ELSE "constructed"
           /\ pr_prompt' = r.prompt
    /\ UNCHANGED <<pr_query, pr_chunks, pr_max_len, pr_valid>>
    /\ UNCHANGED notPrompt

\* A call validate_prompt_format(prompt) on the prompt just constructed.
CallValidatePromptFormat ==
    /\ pr_pc = "constructed"
    /\ pr_pc' = "validated"
    /\ pr_valid' = ValidatePromptFormat(pr_prompt)
    /\ UNCHANGED <<pr_query, pr_chunks, pr_max_len, pr_prompt>>
    /\ UNCHANGED notPrompt

(***************************************************************************)
(* prompt_constructor.py: construct_prompt_with_length_management          *)
(***************************************************************************)
ReservedForAnswer == 500
MeaningfulSpace == 100

\* Lines 128-133: the template whose length is taken off the budget.
BasePrompt(query) ==
    "Question: " \o query \o "\n\n" \o GroundingInstructions \o "\n\nContext:\n"

\* str.rsplit(' ', 1)[0]: what precedes the last blank, the whole string when
\* it has none.
RSplitLastSpace(str) ==
    LET at == {i \in 1..Len(str) : CharAt(str, i) = " "}
    IN  IF at = {} THEN str
        ELSE SubSeq(str, 1, (CHOOSE i \in at : \A j \in at : j <= i) - 1)

\* Lines 156-160: what the loop does with a chunk that does not fit.
\*   "truncate" the chunk is cut to the remaining space and the loop ends
\*   "skip"     the chunk is left out and the loop goes on
OnOverflow(remaining_space) ==
    IF remaining_space > MeaningfulSpace THEN "truncate" ELSE "skip"

\* Lines 142-160: the loop over the chunks; selected_context at its end.
RECURSIVE SelectContext(_, _, _, _)
SelectContext(chunks, remaining_length, selected_context, current_length) ==
    IF chunks = <<>> THEN selected_context
    ELSE LET chunk == Head(chunks)
             chunk_length == Len(chunk) + 1
             remaining_space == remaining_length - current_length
         IN  IF IsBlank(chunk)
             THEN SelectContext(Tail(chunks), remaining_length, selected_context,
                                current_length)
             ELSE IF current_length + chunk_length <= remaining_length
             THEN SelectContext(Tail(chunks), remaining_length,
                                Append(selected_context, chunk),
                                current_length + chunk_length)
             ELSE IF OnOverflow(remaining_space) = "truncate"
             THEN Append(selected_context,
                         RSplitLastSpace(SubSeq(chunk, 1, remaining_space)))
             ELSE SelectContext(Tail(chunks), remaining_length, selected_context,
                                current_length)

\* construct_prompt_with_length_management
ConstructPromptWithLengthManagement(query, context_chunks, max_total_length) ==
    LET remaining_length == max_total_length - Len(BasePrompt(query)) - ReservedForAnswer
        selected_context == SelectContext(context_chunks, remaining_length, <<>>, 0)
        NoContext == [raised |-> FALSE, selected |-> <<>>,
                      prompt |-> CreatePromptWithoutContext(query)]
    IN  IF IsBlank(query) THEN [raised |-> TRUE, selected |-> <<>>, prompt |-> ""]
        ELSE IF context_chunks = <<>> THEN NoContext
        ELSE IF remaining_length <= 0 THEN NoContext
        ELSE IF selected_context = <<>> THEN NoContext
        ELSE [raised |-> FALSE, selected |-> selected_context,
              prompt |-> PromptWithContext(query, JoinLines(selected_context))]

\* str * n
RECURSIVE Repeat(_, _)
Repeat(str, n) == IF n = 0 THEN "" ELSE str \o Repeat(str, n - 1)

\* Chunks of 1, 10, 60 and 240 characters.
ManagedChunks ==
    {" ", "alpha beta", "wwwwwwwww " \o Repeat("w", 50), Repeat("lorem ipsum ", 20)}

\* Budgets that leave the context nothing, 50, 150 and 350 characters with
\* the query "q", and the default.
MaxTotalLengths == {100, 959, 1059, 1259, 3000}

ManagedInit ==
    /\ mp_pc = "idle"
    /\ mp_query \in {" ", "q", "why q?"}
    /\ mp_chunks \in SeqsUpTo(ManagedChunks, MaxManagedChunks)
    /\ mp_max_total \in MaxTotalLengths
    /\ mp_selected = <<>>
    /\ mp_prompt = ""

ManagedIdle ==
    /\ mp_pc = "unused"
    /\ mp_query = ""
    /\ mp_chunks = <<>>
    /\ mp_max_total = 0
    /\ mp_selected = <<>>
    /\ mp_prompt = ""

\* The call construct_prompt_with_length_management(query, context_chunks,
\* max_total_length).
CallConstructPromptWithLengthManagement ==
    /\ mp_pc = "idle"
    /\ LET r == ConstructPromptWithLengthManagement(mp_query, mp_chunks, mp_max_total)
       IN  /\ mp_pc' = IF r.raised THEN "raised" ELSE "constructed"
           /\ mp_selected' = r.selected
           /\ mp_prompt' = r.prompt
    /\ UNCHANGED <<mp_query, mp_chunks, mp_max_total>>
    /\ UNCHANGED notManaged

(***************************************************************************)
(* answer_generation/utils.py: the hallucination and confidence heuristics *)
(***************************************************************************)
UpperCase == "ABCDEFGHIJKLMNOPQRSTUVWXYZ"
LowerCase == "abcdefghijklmnopqrstuvwxyz"
Digits == "0123456789_"

\* The position of character c in str, 0 when it is not there.
IndexIn(str, c) ==
    LET at == {i \in 1..Len(str) : CharAt(str, i) = c}
    IN  IF at = {} THEN 0 ELSE CHOOSE i \in at : TRUE

\* str.lower()
RECURSIVE Lower(_)
Lower(str) ==
    IF str = "" THEN ""
    ELSE LET c == CharAt(str, 1)
             k == IndexIn(UpperCase, c)
         IN  (IF k = 0 THEN c ELSE CharAt(LowerCase, k)) \o Lower(SubSeq(str, 2, Len(str)))

\* \w of the regular expression, for lower-cased text.
IsWordChar(c) == IndexIn(LowerCase, c) # 0 \/ IndexIn(Digits, c) # 0

\* " ".join(context_chunks)
RECURSIVE JoinBlank(_)
JoinBlank(chunks) ==
    IF chunks = <<>> THEN ""
    ELSE IF Len(chunks) = 1 THEN chunks[1]
    ELSE chunks[1] \o " " \o JoinBlank(Tail(chunks))

\* set(re.findall(r'\b\w{4,}\b', str)): the maximal runs of word characters
\* that are MinWordLen or more long.
MinWordLen == 4

RECURSIVE WordsFrom(_, _, _)
WordsFrom(str, i, run) ==
    LET found == IF Len(run) >= MinWordLen THEN {run} ELSE {}
    IN  IF i > Len(str) THEN found
        ELSE IF IsWordChar(CharAt(str, i)) THEN WordsFrom(str, i + 1, run \o CharAt(str, i))
        ELSE found \cup WordsFrom(str, i + 1, "")

Words(str) == WordsFrom(str, 1, "")

InsufficientContextPhrases ==
    {"i cannot answer", "no context provided", "not enough information",
     "based on my general knowledge", "i don't have access to", "i don't know"}

UncertainIndicators ==
    {"i think", "possibly", "might be", "could be", "seems to", "appears to",
     "potentially", "may be", "probably"}

\* overlap_ratio < 0.3 for overlap_ratio = common / total (total > 0)
BelowThresholdInclusive(common, total) == 10 * common <= 3 * total

BelowThresholdOfHalf(common, total) == 10 * common < 5 * total

BelowThreshold(common, total) == 10 * common < 3 * total

\* detect_hallucination
DetectHallucination(answer, context_chunks) ==
    IF answer = "" \/ context_chunks = <<>> THEN FALSE
    ELSE LET full_context == Lower(JoinBlank(context_chunks))
             answer_lower == Lower(answer)
             answer_words == Words(answer_lower)
             context_words == Words(full_context)
         IN  IF \E phrase \in InsufficientContextPhrases : Contains(answer_lower, phrase)
             THEN FALSE
             ELSE IF answer_words = {} THEN FALSE
             ELSE BelowThreshold(Cardinality(answer_words \cap context_words),
                                 Cardinality(answer_words))

\* Fractions num / den with den > 0.
Frac(num, den) == [num |-> num, den |-> den]
Times(x, num, den) == Frac(x.num * num, x.den * den)
LessEq(x, y) == x.num * y.den <= y.num * x.den
FracMin(x, y) == IF LessEq(x, y) THEN x ELSE y
FracMax(x, y) == IF LessEq(x, y) THEN y ELSE x
Zero == Frac(0, 1)
One == Frac(1, 1)

\* len(answer) < 20
ShortAnswerLen == 20

\* calculate_confidence_score
CalculateConfidenceScoreNoCap(context_chunks, answer) ==
    IF context_chunks = <<>> \/ answer = "" THEN Zero
    ELSE LET full_context == Lower(JoinBlank(context_chunks))
             answer_lower == Lower(answer)
             answer_words == Words(answer_lower)
             context_words == Words(full_context)
         IN  IF answer_words = {} THEN Zero
             ELSE LET common == Cardinality(answer_words \cap context_words)
                      base == Frac(2 * common, Cardinality(answer_words))
                      short == IF Len(answer) < ShortAnswerLen THEN Times(base, 8, 10)
                               ELSE base
                      hedged == IF \E indicator \in UncertainIndicators :
                                       Contains(answer_lower, indicator)
                                THEN Times(short, 7, 10) ELSE short
                  IN  FracMax(Zero, hedged)

CalculateConfidenceScore(context_chunks, answer) ==
    IF context_chunks = <<>> \/ answer = "" THEN Zero
    ELSE LET full_context == Lower(JoinBlank(context_chunks))
             answer_lower == Lower(answer)
             answer_words == Words(answer_lower)
             context_words == Words(full_context)
         IN  IF answer_words = {} THEN Zero
             ELSE LET common == Cardinality(answer_words \cap context_words)
                      base == FracMin(One, Frac(2 * common, Cardinality(answer_words)))
                      short == IF Len(answer) < ShortAnswerLen THEN Times(base, 8, 10)
                               ELSE base
                      hedged == IF \E indicator \in UncertainIndicators :
                                       Contains(answer_lower, indicator)
                                THEN Times(short, 7, 10) ELSE short
                  IN  FracMax(Zero, FracMin(One, hedged))

\* The answers and context chunks handed to the heuristics.
Answers ==
    {"", "a of it", "Cats", "cats sleep deeply", "Cats sleep deeply very often",
     "I don't know cats", "I think cats sleep", "possibly cats sleep deeply often",
     "1234 cats", "aaaa bbbb cccc dddd eeee ffff gggg hhhh iiii jjjj"}

AnswerContexts == {"", "Cats", "sleep DEEPLY", "aaaa bbbb cccc", "1234"}

UtilInit ==
    /\ ut_pc = "idle"
    /\ ut_answer \in Answers
    /\ ut_chunks \in SeqsUpTo(AnswerContexts, MaxContextChunks)
    /\ ut_score = Zero
    /\ ut_flag = FALSE

UtilIdle ==
    /\ ut_pc = "unused"
    /\ ut_answer = ""
    /\ ut_chunks = <<>>
    /\ ut_score = Zero
    /\ ut_flag = FALSE

\* The call calculate_confidence_score(context_chunks, answer).
CallCalculateConfidenceScore ==
    /\ ut_pc = "idle"
    /\ ut_pc' = "scored"
    /\ ut_score' = CalculateConfidenceScore(ut_chunks, ut_answer)
    /\ UNCHANGED <<ut_answer, ut_chunks, ut_flag>>
    /\ UNCHANGED notUtil

\* The call detect_hallucination(answer, context_chunks).
CallDetectHallucination ==
    /\ ut_pc = "idle"
    /\ ut_pc' = "detected"
    /\ ut_flag' = DetectHallucination(ut_answer, ut_chunks)
    /\ UNCHANGED <<ut_answer, ut_chunks, ut_score>>
    /\ UNCHANGED notUtil

(***************************************************************************)
(* The specifications, one per component.                                  *)
(***************************************************************************)
\* SPEC-SECTION
InitChunk == ChunkInit /\ IngestIdle /\ BreakerIdle /\ ClientIdle /\ StoreIdle /\ PromptIdle /\ UtilIdle /\ SitemapIdle /\ LimiterIdle /\ ManagedIdle

NextChunk == CallChunkText

SpecChunk == InitChunk /\ [][NextChunk]_vars

InitIngest == IngestInit /\ ChunkIdle /\ BreakerIdle /\ ClientIdle /\ StoreIdle /\ PromptIdle /\ UtilIdle /\ SitemapIdle /\ LimiterIdle /\ ManagedIdle

NextIngest ==
    \/ \E resume \in BOOLEAN : StartRun(resume)
    \/ \E outcome \in {"chunks", "none", "raise"} : ProcessUrl(outcome)
    \/ FinalSave
    \/ ReturnNoChunks
    \/ EmbedAndStore
    \/ \E failing \in {"create_embeddings", "store_content_chunks"} :
           EmbedOrStoreFails(failing)
    \/ ValidateAndReport
    \/ Crash

SpecIngest == InitIngest /\ [][NextIngest]_vars

InitIngestLong ==
    IngestLongInit /\ ChunkIdle /\ BreakerIdle /\ ClientIdle /\ StoreIdle /\ PromptIdle /\ UtilIdle /\ SitemapIdle /\ LimiterIdle /\ ManagedIdle

SpecIngestLong == InitIngestLong /\ [][NextIngest]_vars

InitBreaker == BreakerInit /\ ChunkIdle /\ IngestIdle /\ ClientIdle /\ StoreIdle /\ PromptIdle /\ UtilIdle /\ SitemapIdle /\ LimiterIdle /\ ManagedIdle

NextBreaker ==
    \/ Tick
    \/ ReadState
    \/ \E outcome \in {"return", "raise"}, d \in 0..MaxDuration : BreakerCall(outcome, d)
    \/ Reset

SpecBreaker == InitBreaker /\ [][NextBreaker]_vars

\* A client, the passing of time, and other callers of client.circuit_breaker
\* (send_request alone never makes its breaker count a failure).
InitClient == ClientInit /\ ClientBreakerInit /\ ChunkIdle /\ IngestIdle /\ StoreIdle /\ PromptIdle /\ UtilIdle /\ SitemapIdle /\ LimiterIdle /\ ManagedIdle

NextClient ==
    \/ SendRequest
    \/ \E outcome \in Outcomes : Attempt(outcome)
    \/ RetriesExceeded
    \/ Tick
    \/ \E outcome \in {"return", "raise"}, d \in 0..MaxDuration : BreakerCall(outcome, d)

SpecClient == InitClient /\ [][NextClient]_vars

\* One writer making successive store calls into the collection.
InitStore == StoreInit /\ ChunkIdle /\ IngestIdle /\ BreakerIdle /\ ClientIdle /\ PromptIdle /\ UtilIdle /\ SitemapIdle /\ LimiterIdle /\ ManagedIdle

NextStore ==
    \/ \E texts \in SeqsUpTo(StoreTexts, MaxItems) :
       \E n_embeddings \in EmbeddingCounts(texts), urls \in MetadataUrls(texts),
          batch_size \in BatchSizes, skip_duplicates \in BOOLEAN :
           StoreEmbeddings("w1", texts, n_embeddings, urls, batch_size, skip_duplicates)
    \/ \E item \in StorePairs, skip_duplicates \in BOOLEAN :
           StoreEmbedding("w1", item, skip_duplicates)
    \/ \E scroll_ok \in BOOLEAN : CheckItem("w1", scroll_ok)
    \/ UpsertBatch("w1")
    \/ UpsertFails("w1")

SpecStore == InitStore /\ [][NextStore]_vars

\* The texts of the calls of two concurrent writers: the text "t" alone, after
\* another text, and twice.
ConcurrentTexts == {<<<<"t">>>>, <<<<"s">>, <<"t">>>>, <<<<"t">>, <<"t">>>>}

\* Two writers storing into the same collection with skip_duplicates, their
\* duplicate checks and upserts interleaved; the scroll of a check answers.
NextStoreConcurrent ==
    \/ \E w \in Writers, texts \in ConcurrentTexts, batch_size \in BatchSizes :
           \E urls \in {u \in MetadataUrls(texts) : Len(u) = Len(texts)} :
               StoreEmbeddings(w, texts, Len(texts), urls, batch_size, TRUE)
    \/ \E w \in Writers : CheckItem(w, TRUE)
    \/ \E w \in Writers : UpsertBatch(w)
    \/ \E w \in Writers : UpsertFails(w)

SpecStoreConcurrent == InitStore /\ [][NextStoreConcurrent]_vars

\* One load of a sitemap over every small web of sitemap documents.
InitSitemap ==
    SitemapInit /\ ChunkIdle /\ IngestIdle /\ BreakerIdle /\ ClientIdle /\ StoreIdle /\ PromptIdle /\ UtilIdle /\ LimiterIdle /\ ManagedIdle

NextSitemap ==
    \/ LoadSitemapUrls
    \/ FetchChild
    \/ ReturnUrls

SpecSitemap == InitSitemap /\ [][NextSitemap]_vars

\* A rate limiter called again and again while time passes.
InitLimiter ==
    LimiterInit /\ ChunkIdle /\ IngestIdle /\ BreakerIdle /\ ClientIdle /\ StoreIdle /\ PromptIdle /\ UtilIdle /\ SitemapIdle /\ ManagedIdle

NextLimiter ==
    \/ Tick
    \/ \E overslept \in 0..MaxOversleep : CallWaitIfNeeded(overslept)

SpecLimiter == InitLimiter /\ [][NextLimiter]_vars

\* Length-managed prompts constructed.
InitManaged ==
    ManagedInit /\ ChunkIdle /\ IngestIdle /\ BreakerIdle /\ ClientIdle /\ StoreIdle /\ PromptIdle /\ UtilIdle /\ SitemapIdle /\ LimiterIdle

NextManaged == CallConstructPromptWithLengthManagement

SpecManaged == InitManaged /\ [][NextManaged]_vars

\* Prompts constructed and validated.
InitPrompt ==
    PromptInit /\ ChunkIdle /\ IngestIdle /\ BreakerIdle /\ ClientIdle /\ StoreIdle /\ UtilIdle /\ SitemapIdle /\ LimiterIdle /\ ManagedIdle

NextPrompt ==
    \/ CallConstructPrompt
    \/ CallValidatePromptFormat

SpecPrompt == InitPrompt /\ [][NextPrompt]_vars

\* The heuristics applied to answers and context lists.
InitUtil ==
    UtilInit /\ ChunkIdle /\ IngestIdle /\ BreakerIdle /\ ClientIdle /\ StoreIdle /\ PromptIdle /\ SitemapIdle /\ LimiterIdle /\ ManagedIdle

NextUtil ==
    \/ CallCalculateConfidenceScore
    \/ CallDetectHallucination

SpecUtil == InitUtil /\ [][NextUtil]_vars

(***************************************************************************)
(* C1 (as claimed): every chunk returned by chunk_text has len(text) <= N  *)
(* and char_count <= N.  The code violates it: a sentence longer than N    *)
(* that arrives while the running buffer is non-empty becomes the buffer   *)
(* whole and is emitted unsplit.                                           *)
(***************************************************************************)
C1_ChunkSizeBound ==
    ct_pc = "done" =>
        \A k \in 1..Len(ct_chunks) :
            /\ Len(ct_chunks[k].text) <= ct_size
            /\ ct_chunks[k].char_count <= ct_size

(***************************************************************************)
(* Histories of the current ingestion run, read off ig_attempts.           *)
(***************************************************************************)
IsPrefix(a, b) == Len(a) <= Len(b) /\ a = SubSeq(b, 1, Len(a))

AttemptUrls == [k \in 1..Len(ig_attempts) |-> ig_attempts[k].url]

RECURSIVE UrlsWhere(_, _)
UrlsWhere(attempts, outcomes) ==
    IF attempts = <<>> THEN <<>>
    ELSE (IF Head(attempts).outcome \in outcomes THEN <<Head(attempts).url>> ELSE <<>>)
         \o UrlsWhere(Tail(attempts), outcomes)

\* failed_urls without the entries the checkpoint brought in
FailedThisRun == SubSeq(ig_failed, Len(ig_loaded.failed_urls) + 1, Len(ig_failed))

InRun == ig_pc \in {"loop", "saved", "stored", "done", "aborted", "crashed"}
LoopOver == ig_pc \in {"saved", "stored", "done", "aborted"}

(***************************************************************************)
(* C2: in a run with resume=true, extraction is attempted exactly for the  *)
(* sitemap entries whose URL is not in the loaded checkpoint's             *)
(* processed_urls, each once and in sitemap order (URLs the checkpoint     *)
(* lists only as failed are attempted again); no URL the checkpoint lists  *)
(* as processed is extracted again.                                        *)
(***************************************************************************)
C2_Expected ==
    LET Remaining(u) == \A k \in 1..Len(ig_loaded.processed_urls) :
                            ig_loaded.processed_urls[k] # u
    IN  SelectSeq(ig_sitemap, Remaining)

C2_ResumeAttemptsOnlyUnprocessed ==
    (InRun /\ ig_resume) =>
        /\ IsPrefix(AttemptUrls, C2_Expected)
        /\ LoopOver => AttemptUrls = C2_Expected
        /\ \A k \in 1..Len(ig_attempts) :
               ig_attempts[k].url \notin Range(ig_loaded.processed_urls)

\* A finished resume run that skipped a processed URL and retried a failed one.
C2_Witness ==
    /\ ig_resume /\ ig_pc = "done"
    /\ ig_loaded.processed_urls # <<>>
    /\ Range(ig_loaded.processed_urls) \cap Range(ig_sitemap) # {}
    /\ \E u \in Range(ig_loaded.failed_urls) \ Range(ig_loaded.processed_urls) :
           u \in Range(AttemptUrls)
    /\ Len(AttemptUrls) < Len(ig_sitemap)

(***************************************************************************)
(* C3: a URL whose extraction returns nothing or raises is appended to     *)
(* failed_urls and the loop goes on: whatever the failures, every entry of *)
(* the work set is attempted once, in order, the run is never aborted from *)
(* inside the loop, and each attempt is recorded in exactly one of this    *)
(* run's processed_urls and this run's failed_urls.                        *)
(***************************************************************************)
C3_FailureIsolated ==
    InRun =>
        /\ IsPrefix(AttemptUrls, ig_urls)
        /\ ig_pc # "crashed" => Len(ig_attempts) = ig_i
        /\ LoopOver => AttemptUrls = ig_urls
        /\ ig_newly = UrlsWhere(ig_attempts, {"chunks"})
        /\ FailedThisRun = UrlsWhere(ig_attempts, {"none", "raise"})
        /\ ig_processed = ig_loaded.processed_urls \o ig_newly

\* The loop ran to its end past a raising URL and an empty one.
C3_Witness ==
    /\ LoopOver
    /\ \E j, k, l \in 1..Len(ig_attempts) :
           /\ j < l /\ k < l
           /\ ig_attempts[j].outcome = "raise"
           /\ ig_attempts[k].outcome = "none"
           /\ ig_attempts[l].outcome = "chunks"

(***************************************************************************)
(* C4: from CLOSED with failure counter 0, after failure_threshold         *)
(* consecutive failing calls the breaker is OPEN (it leaves OPEN only for  *)
(* HALF_OPEN, once recovery_timeout has passed since the opening), and     *)
(* every call made while it is OPEN and before recovery_timeout has passed *)
(* since the opening raises the circuit-open error without invoking the    *)
(* wrapped function.                                                       *)
(***************************************************************************)
C4_OpensAndRejects ==
    /\ cb_streak >= cb.failure_threshold =>
           /\ cb.state \in {"OPEN", "HALF_OPEN"}
           /\ cb.state = "HALF_OPEN" => OpenFor >= cb.recovery_timeout
           /\ (cb_last.op = "call" /\ cb_last.result = "raised") => cb.state = "OPEN"
    /\ (cb_last.op = "call" /\ cb_last.state_before = "OPEN"
            /\ cb_last.open_for < cb.recovery_timeout) =>
           /\ cb_last.result = "circuit_open"
           /\ ~cb_last.invoked
           /\ cb.state = "OPEN"

\* A call rejected one second after the second of two failures opened it.
C4_Witness ==
    /\ cb.failure_threshold >= 2
    /\ cb_streak = cb.failure_threshold
    /\ cb_last.op = "call" /\ cb_last.result = "circuit_open"
    /\ cb_last.open_for >= 1

(***************************************************************************)
(* C5 (as claimed): once the breaker is OPEN and recovery_timeout seconds  *)
(* have passed since it opened, the next read of state reports HALF_OPEN,  *)
(* whatever the recorded opening time; from HALF_OPEN the next call runs   *)
(* the wrapped function, a success gives CLOSED with failure_count 0 and a *)
(* failure gives OPEN with the timer restarted at the failure.  The code   *)
(* violates the first part when the opening time recorded is 0.0, which    *)
(* the state property takes for "no failure recorded".                     *)
(***************************************************************************)
C5_HalfOpenAfterTimeout ==
    /\ (cb_last.op = "read" /\ cb_last.state_before = "OPEN"
            /\ cb_last.open_for >= cb.recovery_timeout) =>
           cb_last.reported = "HALF_OPEN"
    /\ (cb_last.op = "call" /\ cb_last.reported = "HALF_OPEN") =>
           /\ cb_last.invoked
           /\ cb_last.result = "returned" =>
                  cb.state = "CLOSED" /\ cb.failure_count = 0
           /\ cb_last.result = "raised" =>
                  cb.state = "OPEN" /\ cb.last_failure_time = cb_last.at

(***************************************************************************)
(* C6 (as claimed): in CLOSED the failure counter counts consecutive       *)
(* failures: a successful call resets failure_count to 0, so the breaker   *)
(* goes from CLOSED to OPEN only after failure_threshold failures with no  *)
(* success in between.  The code never resets the counter in CLOSED.       *)
(***************************************************************************)
C6_CountsConsecutiveFailures ==
    /\ (cb_last.op = "call" /\ cb_last.reported = "CLOSED"
            /\ cb_last.result = "returned") =>
           cb.failure_count = 0
    /\ (cb_last.op = "call" /\ cb_last.reported = "CLOSED" /\ cb.state = "OPEN") =>
           cb_streak >= cb.failure_threshold

(***************************************************************************)
(* C7: for MAX_RETRIES >= 1, a _make_request call whose every response     *)
(* has a status >= 500 issues exactly MAX_RETRIES POSTs and then returns   *)
(* None: it never returns before the MAX_RETRIES-th POST and never issues  *)
(* another one after it.                                                   *)
(***************************************************************************)
C7_ExactlyMaxRetriesOn5xx ==
    (rq_max_retries >= 1 /\ rq_last = "503" /\ rq_all5xx) =>
        /\ rq_posts <= rq_max_retries
        /\ rq_pc = "returned" <=> rq_posts = rq_max_retries
        /\ rq_pc = "returned" => rq_result = "None"
        /\ rq_pc = "attempt" => rq_attempt = rq_posts

\* Two 503 answers with MAX_RETRIES = 2: the call has returned None.
C7_Witness ==
    /\ rq_max_retries = 2 /\ rq_posts = 2
    /\ rq_last = "503" /\ rq_all5xx
    /\ rq_pc = "returned" /\ rq_result = "None"

(***************************************************************************)
(* C8: when the gateway answers an attempt with 400, 401, 403 or 404,      *)
(* _make_request returns None at once: no further POST and no backoff      *)
(* sleep follow that response, whatever the attempt number and whatever    *)
(* came before it.                                                         *)
(***************************************************************************)
C8_NoRetryOnClientError ==
    rq_last \in {"400", "401", "403", "404"} =>
        /\ rq_pc = "returned"
        /\ rq_result = "None"
        /\ rq_slept = 0
        /\ rq_posts = rq_attempt + 1

\* A 404 on the second attempt, after a retried first one.
C8_Witness ==
    /\ rq_last = "404" /\ rq_posts = 2 /\ rq_pc = "returned"
    /\ rq_max_retries >= 2

(***************************************************************************)
(* C9: send_request never propagates an exception: for every sequence of   *)
(* gateway outcomes and every breaker state, OPEN included, it returns the *)
(* first choice's content or None.                                         *)
(***************************************************************************)
C9_SendRequestNeverRaises ==
    /\ rq_pc # "raised"
    /\ rq_pc = "returned" => rq_result \in {"content", "None"}
    /\ (rq_pc = "returned" /\ rq_result = "content") => rq_last = "200"

\* An OPEN breaker rejected the call and send_request returned None.
C9_Witness ==
    /\ rq_pc = "returned" /\ rq_result = "None"
    /\ rq_count >= 1 /\ rq_posts = 0
    /\ cb_last.op = "call" /\ cb_last.result = "circuit_open"

\* The points of the collection that carry the content hash of a pair.
PointsOf(pair) ==
    PointsWithHash(st_collection, GenerateContentHash(pair.text, pair.url))

\* C10: once a store_embeddings / store_embedding call with skip_duplicates
\* has completed for a (text, url) pair, the collection holds exactly one
\* point with that pair's content hash, however many copies of the pair
\* arrived, in that call or in earlier ones.
C10_OnePointPerContentHash ==
    \A pair \in st_stored : Cardinality(PointsOf(pair)) = 1

\* One pair arrived twice in one completed call and again in a later
\* completed call, another pair was stored besides it, and each has one point.
C10_Witness ==
    /\ \E pair \in st_stored :
          /\ [pair |-> pair, how |-> "same_call"] \in st_repeat
          /\ [pair |-> pair, how |-> "successive_calls"] \in st_repeat
          /\ Cardinality(PointsOf(pair)) = 1
    /\ st_stored = StorePairs
    /\ st_w["w1"].pc = "done"

(***************************************************************************)
(* C15: a run whose loop accumulated no chunks writes the final checkpoint *)
(* and returns normally: it does not raise, and it calls neither           *)
(* create_embeddings nor store_content_chunks.                             *)
(***************************************************************************)
C15_NoChunksNoCalls ==
    (ig_pc \in {"saved", "stored", "aborted", "done"} /\ ig_all_chunks = <<>>) =>
        /\ ig_pc \in {"saved", "done"}
        /\ ig_calls = <<>>
        /\ ig_saves # <<>>
        /\ ig_saves[Len(ig_saves)] = [after |-> Len(ig_urls), processed_urls |-> ig_processed,
                                      failed_urls |-> ig_failed]
        /\ ig_ckpt = SaveProgress(ig_processed, ig_failed)

\* A resume run that finds every sitemap URL processed returns with no call.
C15_Witness ==
    /\ ig_pc = "done"
    /\ ig_resume
    /\ ig_sitemap # <<>>
    /\ ig_urls = <<>>
    /\ ig_all_chunks = <<>>
    /\ ig_calls = <<>>
    /\ ig_ckpt.exists

\* The arguments of the call of writer w do not all have the same length.
Mismatched(writer) ==
    /\ writer.op = "store_embeddings"
    /\ ~(writer.lengths[1] = writer.lengths[2] /\ writer.lengths[1] = writer.lengths[3])

(***************************************************************************)
(* C16: a store_embeddings call whose texts, embeddings and metadata_list  *)
(* do not all have the same length raises before any duplicate check and   *)
(* before any upsert, and the step that starts it leaves the collection as *)
(* it was.                                                                 *)
(***************************************************************************)
C16_MismatchRaisesFirst ==
    [][(st_calls' # st_calls /\ Mismatched(st_w'["w1"])) =>
          /\ st_w'["w1"].pc = "raised"
          /\ st_w'["w1"].checks = 0
          /\ st_w'["w1"].upserts = 0
          /\ st_collection' = st_collection
          /\ <<st_stored, st_repeat>>' = <<st_stored, st_repeat>>]_vars

\* A call with more metadata entries than texts has raised over a collection
\* that holds a point.
C16_Witness ==
    /\ st_w["w1"].pc = "raised"
    /\ st_w["w1"].lengths = <<2, 2, 1>>
    /\ st_w["w1"].checks = 0
    /\ st_w["w1"].upserts = 0
    /\ st_collection # {}

\* The number of periodic saves the loop has made after i URLs.
PeriodicSaves(i) == i \div 10

\* The in-memory list after the first n URLs of the run: what the checkpoint
\* brought in, then the URLs of the first n attempts with these outcomes.
ListAfter(loaded, n, outcomes) ==
    loaded \o UrlsWhere(SubSeq(ig_attempts, 1, n), outcomes)

\* Positions of the run's handled URLs that the checkpoint file does not list.
MissingFromCheckpoint ==
    {k \in 1..Len(ig_attempts) :
        ig_attempts[k].url \notin Range(ig_ckpt.processed_urls) \cup Range(ig_ckpt.failed_urls)}

(***************************************************************************)
(* C17: in a run of the loop a checkpoint is written after the 10th, 20th, *)
(* ... URL handled, whatever its outcome, and once more after the last     *)
(* URL; each checkpoint holds the in-memory processed_urls and failed_urls *)
(* of the moment it is written, successive checkpoints of the run only     *)
(* grow, and at most 9 handled URLs are missing from the latest one.       *)
(***************************************************************************)
C17_CheckpointEveryTen ==
    InRun =>
        LET periodic == PeriodicSaves(ig_i)
            written == Len(ig_saves)
        IN  /\ ig_pc \in {"loop", "crashed"} => written = periodic
            /\ ig_pc \in {"saved", "stored", "done"} => written = periodic + 1
            /\ ig_pc = "aborted" => written = periodic + 2
            /\ \A k \in 1..written :
                   /\ ig_saves[k].after = IF k <= periodic THEN 10 * k ELSE Len(ig_urls)
                   /\ ig_saves[k].processed_urls =
                          ListAfter(ig_loaded.processed_urls, ig_saves[k].after, {"chunks"})
                   /\ ig_saves[k].failed_urls =
                          ListAfter(ig_loaded.failed_urls, ig_saves[k].after, {"none", "raise"})
            /\ \A k \in 1..written - 1 :
                   /\ IsPrefix(ig_saves[k].processed_urls, ig_saves[k + 1].processed_urls)
                   /\ IsPrefix(ig_saves[k].failed_urls, ig_saves[k + 1].failed_urls)
            /\ written > 0 =>
                   ig_ckpt = SaveProgress(ig_saves[written].processed_urls,
                                          ig_saves[written].failed_urls)
            /\ Cardinality(MissingFromCheckpoint) <= 9

\* The 20th URL has just been handled, one URL of the run failed, and the second
\* periodic checkpoint holds all twenty.
C17_Witness ==
    /\ ig_pc = "loop"
    /\ ig_i = 20
    /\ Len(ig_urls) > 20
    /\ Len(ig_saves) = 2
    /\ Len(ig_failed) = 1
    /\ Len(ig_ckpt.processed_urls) = 19
    /\ MissingFromCheckpoint = {}

\* The content hashes of the pairs a call can bring.
StoreHashes == {GenerateContentHash(pair.text, pair.url) : pair \in StorePairs}

\* The last point of a batch that carries the id, the one an upsert of the
\* batch leaves in the collection.
LastWithId(batch, id) ==
    batch[CHOOSE k \in DOMAIN batch :
              /\ batch[k].id = id
              /\ \A j \in DOMAIN batch : batch[j].id = id => j <= k]

\* Writer w has just made a successful upsert.
Upserted(w) ==
    /\ st_w[w].pc = "upserting"
    /\ st_w'[w].upserts = st_w[w].upserts + 1
    /\ st_w'[w].pc # "raised"

\* The batch of that upsert.
UpsertedBatch(w) ==
    SubSeq(st_w[w].points, 1, Len(st_w[w].points) - Len(st_w'[w].points))

(***************************************************************************)
(* C18: two writers storing the same (text, url) with skip_duplicates,     *)
(* their checks and upserts interleaved in every way: the collection never *)
(* holds two points of one content hash, holds exactly one for every pair  *)
(* of a completed call, and after each upsert the point of a hash is the   *)
(* one that upsert wrote (the last writer wins).                           *)
(***************************************************************************)
C18_ConcurrentWritersOnePoint ==
    /\ [](/\ \A content_hash \in StoreHashes :
                Cardinality({q \in st_collection : q.payload.content_hash = content_hash}) <= 1
          /\ \A pair \in st_stored :
                \E q \in st_collection : /\ q.payload.text = pair.text
                                         /\ q.payload.url = pair.url)
    /\ [][\A w \in {"w1", "w2"} :
             Upserted(w) =>
                 \A k \in DOMAIN UpsertedBatch(w) :
                     {q \in st_collection' : q.id = UpsertedBatch(w)[k].id}
                         = {LastWithId(UpsertedBatch(w), UpsertedBatch(w)[k].id)}]_vars

\* Both writers brought the pair (t, u), at different positions of their
\* calls; each made one duplicate check per item, found no point and upserted;
\* both calls are over and the one point of the pair is the second writer's.
C18_Witness ==
    /\ st_w["w1"].pc = "done" /\ st_w["w2"].pc = "done"
    /\ st_w["w1"].items = <<[text |-> <<"t">>, url |-> <<"u">>]>>
    /\ st_w["w2"].items = <<[text |-> <<"s">>, url |-> <<"u">>], [text |-> <<"t">>, url |-> <<"u">>]>>
    /\ st_w["w1"].checks = 1 /\ st_w["w1"].upserts = 1
    /\ st_w["w2"].checks = 2 /\ st_w["w2"].upserts = 1
    /\ \E q \in st_collection : q.payload.text = <<"t">> /\ q.payload.position = 1
    /\ Cardinality(st_collection) = 2

(***************************************************************************)
(* C11: for every non-blank query and every context list, also the empty   *)
(* list and a list of blank strings only, validate_prompt_format of the    *)
(* prompt construct_prompt returned is true.                               *)
(***************************************************************************)
C11_PromptFormatValid ==
    pr_pc = "validated" => pr_valid

\* C11 as amended: the prompt is valid when the context list has a non-blank
\* chunk; for an empty or all-blank list it is valid exactly when the query
\* itself contains "Context:".
C11_PromptFormatValidWithContext ==
    pr_pc = "validated" =>
        IF \E k \in DOMAIN pr_chunks : ~IsBlank(pr_chunks[k])
        THEN pr_valid
        ELSE pr_valid <=> Contains(pr_query, "Context:")

C11_Witness ==
    /\ pr_pc = "validated"
    /\ pr_valid
    /\ pr_query = "why q?"
    /\ pr_chunks = <<" ", "c d">>
    /\ pr_max_len = 2

(***************************************************************************)
(* C12: for a non-blank query without "Context:", construct_prompt with an *)
(* empty context list or with blank chunks only returns the no-context     *)
(* prompt: no "Context:" in it, and the exact abstention phrase in it.     *)
(***************************************************************************)
C12_NoContextFallback ==
    (/\ pr_pc \in {"constructed", "validated"}
     /\ ~Contains(pr_query, "Context:")
     /\ \A k \in DOMAIN pr_chunks : IsBlank(pr_chunks[k])) =>
        /\ ~Contains(pr_prompt, "Context:")
        /\ Contains(pr_prompt, "I cannot answer this question based on the provided context.")
        /\ pr_prompt = CreatePromptWithoutContext(pr_query)

C12_Witness ==
    /\ pr_pc = "constructed"
    /\ pr_query = "q"
    /\ pr_chunks = <<"", "\n">>
    /\ ~Contains(pr_prompt, "Context:")

(***************************************************************************)
(* C13: calculate_confidence_score returns a value in [0.0, 1.0], and      *)
(* exactly 0.0 when the chunk list or the answer is empty or the answer    *)
(* has no word of 4 or more characters.                                    *)
(***************************************************************************)
C13_ConfidenceInRange ==
    ut_pc = "scored" =>
        /\ LessEq(Zero, ut_score) /\ LessEq(ut_score, One)
        /\ (ut_chunks = <<>> \/ ut_answer = "" \/ Words(Lower(ut_answer)) = {}) =>
               ut_score.num = 0

\* Every word of the answer is in the context (the ratio doubled is 2, capped
\* to 1) and the answer is long and unhedged: the score is 1.
C13_Witness ==
    /\ ut_pc = "scored"
    /\ ut_answer = "Cats sleep deeply very often"
    /\ ut_score.num = ut_score.den

\* The hallucination flag the spec's sentence describes: no abstention
\* phrase, and an overlap ratio below 0.3, the ratio being 0 when the answer
\* has no qualifying word.
OverlapBelowThreshold(answer, context_chunks) ==
    LET answer_words == Words(Lower(answer))
        context_words == Words(Lower(JoinBlank(context_chunks)))
    IN  IF answer_words = {} THEN TRUE
        ELSE 10 * Cardinality(answer_words \cap context_words)
                 < 3 * Cardinality(answer_words)

HasAbstentionPhrase(answer) ==
    \E phrase \in InsufficientContextPhrases : Contains(Lower(answer), phrase)

(***************************************************************************)
(* C14: detect_hallucination returns true if and only if the answer has    *)
(* none of the six abstention phrases and the overlap ratio is below 0.3,  *)
(* the ratio being 0 when the answer has no qualifying word.               *)
(***************************************************************************)
C14_FlagIffLowOverlap ==
    ut_pc = "detected" =>
        (ut_flag <=> (~HasAbstentionPhrase(ut_answer)
                        /\ OverlapBelowThreshold(ut_answer, ut_chunks)))

\* C14 as amended: the flag is raised if and only if the answer and the
\* chunk list are non-empty, the answer has no abstention phrase, it has at
\* least one qualifying word, and the overlap ratio is below 0.3.
C14_FlagIffLowOverlapOfWords ==
    ut_pc = "detected" =>
        (ut_flag <=> (/\ ut_answer # "" /\ ut_chunks # <<>>
                      /\ ~HasAbstentionPhrase(ut_answer)
                      /\ Words(Lower(ut_answer)) # {}
                      /\ OverlapBelowThreshold(ut_answer, ut_chunks)))

\* One word of four in the context: flagged.
C14_Witness ==
    /\ ut_pc = "detected"
    /\ ut_flag
    /\ ut_answer = "possibly cats sleep deeply often"
    /\ ut_chunks = <<"Cats">>

\* The <sitemap> entries of the top-level document when it is an index.
TopLevelEntries ==
    IF sm_web[sm_top].ok /\ sm_web[sm_top].urls = <<>> THEN Len(sm_web[sm_top].sitemaps) ELSE 0

(***************************************************************************)
(* C19: load_sitemap_urls follows sitemap-index indirection exactly one    *)
(* level: a child sitemap that is itself an index causes no further        *)
(* fetches, so a load issues at most 1 + (number of <sitemap> entries of   *)
(* the top-level index) fetches.                                           *)
(***************************************************************************)
C19_OneLevelOfIndirection ==
    /\ sm_fetches <= 1 + TopLevelEntries
    /\ Len(sm_stack) <= 1

(***************************************************************************)
(* C20: after any sequence of wait_if_needed calls, the clock never going  *)
(* back and a sleep lasting at least the time asked for, the call list     *)
(* holds at most max_calls timestamps, each less than time_window seconds  *)
(* before the last return, and any max_calls + 1 returns are at least      *)
(* time_window seconds apart from first to last: no interval of            *)
(* time_window seconds, its end excluded, holds more than max_calls        *)
(* returns.                                                                *)
(***************************************************************************)
C20_RateLimiterWindow ==
    lm_returns # <<>> =>
        /\ Len(rl_calls) <= lm_max_calls
        /\ \A k \in 1..Len(rl_calls) :
               /\ rl_calls[k] <= lm_returns[Len(lm_returns)]
               /\ lm_returns[Len(lm_returns)] - rl_calls[k] < lm_time_window
        /\ \A i \in 1..Len(lm_returns) : \A j \in 1..Len(lm_returns) :
               j - i >= lm_max_calls => lm_returns[j] - lm_returns[i] >= lm_time_window

\* A limiter of two calls per three seconds has answered two calls at once and
\* made the third and the fourth wait: the list holds two timestamps.
C20_Witness ==
    /\ lm_max_calls = 2 /\ lm_time_window = 3
    /\ Len(lm_returns) = 4
    /\ lm_returns[2] = lm_returns[1]
    /\ lm_returns[3] = lm_returns[1] + 3
    /\ lm_returns[4] > lm_returns[3]
    /\ Len(rl_calls) = 2

\* The first max_len characters of the text, cut back to the last blank in
\* them when there is one after position 0.
CutAtLastSpace(text, max_len) ==
    LET cut == SubSeq(text, 1, max_len)
        blanks == {i \in 2..Len(cut) : SubSeq(cut, i, i) = " "}
    IN  IF blanks = {} THEN cut
        ELSE SubSeq(cut, 1, (CHOOSE i \in blanks : \A j \in blanks : j <= i) - 1)

(***************************************************************************)
(* C21: when construct_prompt is given max_context_length and the joined   *)
(* context is longer, the context of the prompt is the first               *)
(* max_context_length characters cut back to the last space inside them,   *)
(* so that it does not end in the middle of a word.                        *)
(***************************************************************************)
C21_TruncationAtWordBoundary ==
    LET context_text == JoinLines(SelectSeq(pr_chunks, LAMBDA chunk : ~IsBlank(chunk)))
    IN  (/\ pr_pc \in {"constructed", "validated"}
         /\ pr_max_len # 0
         /\ Len(context_text) > pr_max_len) =>
            pr_prompt = "Context:\n" \o CutAtLastSpace(context_text, pr_max_len)
                            \o "\n\nQuestion: " \o pr_query \o "\n\n" \o GroundingInstructions

\* The budget of the context: what max_total_length leaves after the
\* template and the 500 characters kept for the answer.
ContextBudget == mp_max_total - Len(BasePrompt(mp_query)) - 500

\* The chunks that are not blank, in order.
NonBlankChunks == SelectSeq(mp_chunks, LAMBDA chunk : ~IsBlank(chunk))

\* Whole chunks while they fit, then the first that does not fit cut to the
\* space left, and nothing after it.
RECURSIVE WholeThenCut(_, _)
WholeThenCut(chunks, space) ==
    IF chunks = <<>> THEN <<>>
    ELSE IF Len(chunks[1]) + 1 <= space
    THEN <<chunks[1]>> \o WholeThenCut(Tail(chunks), space - (Len(chunks[1]) + 1))
    ELSE <<RSplitLastSpace(SubSeq(chunks[1], 1, space))>>

(***************************************************************************)
(* C22: construct_prompt_with_length_management adds chunks whole, in      *)
(* order, while they fit the remaining budget; the first non-blank chunk   *)
(* that would overflow is truncated to the remaining space and selection   *)
(* stops: no chunk after it is in the prompt, whatever space remains.      *)
(***************************************************************************)
C22_StopsAtFirstOverflow ==
    (mp_pc = "constructed" /\ mp_selected # <<>>) =>
        mp_selected = WholeThenCut(NonBlankChunks, ContextBudget)

(***************************************************************************)
(* C23: for every non-blank query, chunk list and max_total_length the     *)
(* prompt of construct_prompt_with_length_management is at most            *)
(* max_total_length long, at most max_total_length - 500 when it has a     *)
(* Context section, the no-context fallback included.                      *)
(***************************************************************************)
C23_PromptWithinLimit ==
    mp_pc = "constructed" =>
        /\ Len(mp_prompt) <= mp_max_total
        /\ mp_selected # <<>> => Len(mp_prompt) <= mp_max_total - 500

(***************************************************************************)
(* C24: in _make_request the backoff sleep is taken only between two       *)
(* attempts: after a sleep the loop has another POST to make, whatever the *)
(* response that was retried (HTTP 429 included), no sleep follows the     *)
(* final attempt, and a call whose last response was 429 has made exactly  *)
(* MAX_RETRIES POSTs when None is returned.                                *)
(***************************************************************************)
C24_SleepOnlyBetweenAttempts ==
    /\ (rq_pc = "attempt" /\ rq_slept > 0) => rq_attempt < rq_max_retries
    /\ (rq_pc = "returned" /\ rq_posts = rq_max_retries) => rq_slept = 0
    /\ (rq_pc = "returned" /\ rq_last = "429") =>
           (rq_posts = rq_max_retries /\ rq_result = "None")

(***************************************************************************)
(* C25: every URL that the checkpoint lists in processed_urls has its      *)
(* chunks in the vector store once the work is finished: when a run with   *)
(* resume=true completes after a run that aborted during embedding or      *)
(* storage, or crashed after a checkpoint, the chunks of every URL of      *)
(* processed_urls have been upserted.                                      *)
(***************************************************************************)
C25_ProcessedUrlsAreStored ==
    (ig_pc = "done" /\ ig_resume /\ ig_run > 1) =>
        Range(ig_ckpt.processed_urls) \subseteq ig_store

(***************************************************************************)
(* C26: a gateway that keeps failing trips the client's breaker: after     *)
(* failure_threshold (MAX_RETRIES + 2) consecutive send_request calls that *)
(* each POSTed, got only 5xx answers and returned None, the client's       *)
(* circuit_breaker is OPEN, and a later send_request is let into           *)
(* _make_request only once recovery_timeout has passed since it opened.    *)
(***************************************************************************)
C26_FailingGatewayTripsBreaker ==
    /\ (rq_pc = "returned" /\ rq_last = "503" /\ rq_down >= cb.failure_threshold) =>
           cb.state = "OPEN"
    /\ (rq_pc = "attempt" /\ rq_down >= cb.failure_threshold) =>
           OpenFor >= cb.recovery_timeout

(***************************************************************************)
(* C27: the rate limiter bounds the HTTP traffic of one client: the POSTs  *)
(* issued within any interval of time_window seconds, the retries inside   *)
(* _make_request included, are at most max_calls; in particular the POSTs  *)
(* of one send_request call within time_window seconds of its latest POST. *)
(***************************************************************************)
C27_PostsWithinRateLimit ==
    Len(rq_post_times) <= RlMaxCalls

(***************************************************************************)
(* C28: whenever run_ingestion_pipeline reaches the reconciliation step,   *)
(* the set all_sitemap_urls - processed_urls - failed_urls is empty, for   *)
(* resume and non-resume runs and for every pattern of per-URL failures:   *)
(* the "URLs that were not processed" warning is unreachable.              *)
(***************************************************************************)
C28_NothingLeftUnprocessed ==
    ig_pc = "stored" => UnprocessedUrls = {}

\* The reconciliation of a resumed run that skipped a URL of the checkpoint,
\* had one extraction raise and one succeed.
C28_Witness ==
    /\ ig_pc = "stored"
    /\ ig_resume
    /\ ig_loaded.processed_urls # <<>>
    /\ \E j, k \in 1..Len(ig_attempts) :
           ig_attempts[j].outcome = "raise" /\ ig_attempts[k].outcome = "chunks"

\* No element occurs twice in the list.
ListedOnce(s) == \A j, k \in 1..Len(s) : s[j] = s[k] => j = k

(***************************************************************************)
(* C29: in every checkpoint written by run_ingestion_pipeline in a run     *)
(* with resume=true over a sitemap of distinct URLs, processed_urls and    *)
(* failed_urls are disjoint and neither lists a URL more than once: a URL  *)
(* that failed in an earlier run and is retried on resume is recorded      *)
(* once, in one of the two lists.                                          *)
(***************************************************************************)
C29_CheckpointListsDisjoint ==
    (ListedOnce(ig_sitemap) /\ ig_resume) =>
        \A k \in 1..Len(ig_saves) :
            /\ Range(ig_saves[k].processed_urls) \cap Range(ig_saves[k].failed_urls) = {}
            /\ ListedOnce(ig_saves[k].processed_urls)
            /\ ListedOnce(ig_saves[k].failed_urls)

\* x < y for fractions.
StrictlyBelow(x, y) == x.num * y.den < y.num * x.den

(***************************************************************************)
(* C30: the two answer signals are consistent: whenever                    *)
(* detect_hallucination(answer, chunks) returns true,                      *)
(* calculate_confidence_score(chunks, answer) is strictly below 0.6.       *)
(***************************************************************************)
C30_FlaggedMeansLowConfidence ==
    /\ (ut_pc = "detected" /\ ut_flag) =>
           StrictlyBelow(CalculateConfidenceScore(ut_chunks, ut_answer), Frac(6, 10))
    /\ (ut_pc = "scored" /\ DetectHallucination(ut_answer, ut_chunks)) =>
           StrictlyBelow(ut_score, Frac(6, 10))

\* A flagged answer that shares a word with the context: its score is above 0.
C30_Witness ==
    /\ ut_pc = "detected"
    /\ ut_flag
    /\ StrictlyBelow(Zero, CalculateConfidenceScore(ut_chunks, ut_answer))

====
